---- MODULE Spec2Model ----
(***************************************************************************)
(* State-machine model of the screen capture classes: the ScreenCapture    *)
(* facade (ScreenCap.h), the GDI blit backend (ScreenCapGDI.cpp/.h) and    *)
(* the DirectX 11 output-duplication backend (ScreenCapDX11.cpp/.h).       *)
(*                                                                         *)
(* Every public method is one action.  The methods themselves are          *)
(* operators from (object, native state, environment outcome) to           *)
(* (object, native state, return value, native calls made), so that the    *)
(* facade's actions can compose them exactly as the C++ does.  What the    *)
(* operating system, GDI and the DXGI driver answer is an input of the     *)
(* action, drawn from small sets.                                          *)
(***************************************************************************)
EXTENDS Integers, Sequences, FiniteSets, TLC

VARIABLES
    user,           \* which object the client program drives: "facade", "gdi", "dx11",
                    \* "encoder", or "capenctest" when the program is capenctest,
                    \* "captest" when it is a caller of captest's BmpWrite
    m_mode,         \* ScreenCapture::m_mode
    m_capgdi,       \* ScreenCapture::m_capgdi   (NULL or the address of gdi)
    m_capdx11,      \* ScreenCapture::m_capdx11  (NULL or the address of dx)
    leaked,         \* backend instances whose only pointer was overwritten without delete
    gdi,            \* the ScreenCaptureGDI instance (members)
    dx,             \* the ScreenCaptureDX11 instance (members)
    gdios,          \* GDI side: objects created by the instance and not yet deleted
    dxgi,           \* DXGI side: the duplication session's state
    op,             \* the operation that ran last, and its argument
    ret,            \* what it returned
    calls,          \* the native calls it made, in order
    hist,           \* history of the session: started, outcome of captures
    enc,            \* the VideoFileEncoder instance, Media Foundation and COM
    main,           \* capenctest: the locals and the position of main()
    bmp             \* captest: the arguments of the last BmpWrite call and what it read

vars == <<user, m_mode, m_capgdi, m_capdx11, leaked, gdi, dx, gdios, dxgi,
          op, ret, calls, hist, enc, main, bmp>>

(***************************************************************************)
(* Bounds of the model.                                                    *)
(***************************************************************************)
MaxW == 2               \* screen widths 1..MaxW pixels
MaxH == 3               \* screen heights 1..MaxH pixels (odd and even)
MaxRetries == 4         \* "frame not ready" answers the driver may give in a row
MaxLive == 1            \* native objects of one kind alive at once
MaxIFrames == 3         \* passes of capenctest's for loop (100 in the source)
MaxBmpW == 2            \* BmpWrite: widths 0..MaxBmpW pixels
MaxBmpH == 2            \* BmpWrite: heights 0..MaxBmpH scanlines
MaxBmpStride == 8       \* BmpWrite: strides 0..MaxBmpStride bytes
MaxEncoders == 1        \* encoders a client constructs one after the other

(***************************************************************************)
(* Program constants.                                                      *)
(***************************************************************************)
NULL == 0
ScreenCaptureMode_Invalid == 0
ScreenCaptureMode_GDI == 1
ScreenCaptureMode_DX11 == 2
Mode_Other == ScreenCaptureMode_DX11 + 1   \* a value that is none of the enumerators
AcquireAttempts_OneMore == 4 + 1    \* mutant: attempt <= 4 for attempt < 4
AcquireAttempts == 4
BitsPerPixel == 32
framesPerSecond == 30

DXGI_FORMAT_B8G8R8A8_UNORM == 87
DXGI_FORMAT_B8G8R8X8_UNORM == 88
DXGI_FORMAT_B8G8R8A8_TYPELESS == 90
DXGI_FORMAT_B8G8R8A8_UNORM_SRGB == 91
DXGI_FORMAT_B8G8R8X8_TYPELESS == 92
DXGI_FORMAT_B8G8R8X8_UNORM_SRGB == 93
\* A format (24 in dxgiformat.h) that IsFormat32bit does not list.
DXGI_FORMAT_R10G10B10A2_UNORM == DXGI_FORMAT_B8G8R8A8_UNORM - 63

HANDLE == NULL + 1      \* any non-null handle, interface pointer or address

Modes == {ScreenCaptureMode_Invalid, ScreenCaptureMode_GDI,
          ScreenCaptureMode_DX11, Mode_Other}
Screens == (1..MaxW) \X (1..MaxH)
Frames == {1, 2}         \* two screen contents that differ

Meta(w, h, d, s) == [width |-> w, height |-> h, depth |-> d, stride |-> s]
ZeroMeta == Meta(0, 0, 0, 0)

(***************************************************************************)
(* ScreenCaptureGDI                                                        *)
(***************************************************************************)
\* Member initialisers of a new instance.
GDI_New ==
    [m_width |-> 0, m_height |-> 0, m_depth |-> 0, m_stride |-> 0,
     m_hdcMem |-> NULL, m_dibSection |-> NULL, m_dibOld |-> NULL,
     m_dibBits |-> NULL]

\* What GDI holds on behalf of the instance.  bitsLive: the DIB section that
\* m_dibBits points into still exists; pixels: its scanlines in memory order.
\* dibWidth, dibHeight: the size that DIB section was created with; memDCs and
\* dibs count what was created minus what was deleted; blits: how many times
\* BitBlt has copied the screen into that DIB section (none, once, more);
\* virtWidth, virtHeight: the size of the virtual screen (all monitors) when
\* that DIB section was created.
GDIOS_New ==
    [memDCs |-> 0, dibs |-> 0, bitsLive |-> FALSE, pixels |-> <<>>,
     dibWidth |-> 0, dibHeight |-> 0, blits |-> "none",
     virtWidth |-> 0, virtHeight |-> 0]

\* while (m_stride % 4) ++m_stride;
RECURSIVE RoundUp4(_)
RoundUp4(s) == IF s % 4 # 0 THEN RoundUp4(s + 1) ELSE s

\* Mutant: the stride counts pixels, not bytes.
GDIStride_Pixels(w, bits) == RoundUp4(w)

\* Mutant: the stride computed in bits, the division by 8 forgotten.
GDIStride_NoDiv(w, bits) == RoundUp4(w * bits)

\* m_stride = m_width * hdr.biBitCount / 8, rounded up to a multiple of 4.
GDIStride(w, bits) == RoundUp4((w * bits) \div 8)

\* Mutant: the size of the primary monitor is used whatever the monitor count.
ScreenSize_Primary(env) == env.prim

\* "Determine the dimensions of the frame buffer": the primary monitor's
\* size, replaced by the virtual screen's when there are several monitors.
ScreenSize(env) == IF env.monitors > 1 THEN env.virt ELSE env.prim

\* Mutant: when CreateDIBSection fails the memory display context is not
\* deleted.
GDI_Startup_NoDeleteDC(self, os, env) ==
    LET w == ScreenSize(env)[1]
        h == ScreenSize(env)[2]
        s1 == [self EXCEPT !.m_width = w, !.m_height = h]
        c1 == <<"GetDC", "CreateCompatibleDC", "ReleaseDC">>
    IN  IF ~env.dcOK
        THEN [self |-> [s1 EXCEPT !.m_hdcMem = NULL],
              os |-> os, ret |-> FALSE, calls |-> c1]
        ELSE IF ~env.dibOK
        THEN [self |-> [s1 EXCEPT !.m_hdcMem = NULL, !.m_dibSection = NULL,
                                  !.m_dibBits = NULL],
              os |-> [os EXCEPT !.memDCs = @ + 1,
                                !.bitsLive = FALSE, !.pixels = <<>>,
                                !.dibWidth = 0, !.dibHeight = 0,
                                !.virtWidth = 0, !.virtHeight = 0,
                                !.blits = "none"],
              ret |-> FALSE,
              calls |-> c1 \o <<"CreateDIBSection">>]
        ELSE [self |-> [s1 EXCEPT !.m_hdcMem = HANDLE, !.m_dibSection = HANDLE,
                                  !.m_dibBits = HANDLE, !.m_dibOld = HANDLE,
                                  !.m_depth = BitsPerPixel,
                                  !.m_stride = GDIStride(w, BitsPerPixel)],
              os |-> [os EXCEPT !.memDCs = @ + 1, !.dibs = @ + 1,
                                !.bitsLive = TRUE,
                                !.dibWidth = w, !.dibHeight = h,
                                !.virtWidth = env.virt[1],
                                !.virtHeight = env.virt[2],
                                !.blits = "none",
                                !.pixels = [i \in 1..h |-> <<0, 0>>]],
              ret |-> TRUE,
              calls |-> c1 \o <<"CreateDIBSection", "SelectObject">>]

\* env: [monitors, prim, virt, dcOK, dibOK]
GDI_Startup(self, os, env) ==
    LET w == ScreenSize(env)[1]
        h == ScreenSize(env)[2]
        s1 == [self EXCEPT !.m_width = w, !.m_height = h]
        c1 == <<"GetDC", "CreateCompatibleDC", "ReleaseDC">>
    IN  IF ~env.dcOK
        THEN [self |-> [s1 EXCEPT !.m_hdcMem = NULL],
              os |-> os, ret |-> FALSE, calls |-> c1]
        ELSE IF ~env.dibOK
        THEN [self |-> [s1 EXCEPT !.m_hdcMem = NULL, !.m_dibSection = NULL,
                                  !.m_dibBits = NULL],
              os |-> [os EXCEPT !.bitsLive = FALSE, !.pixels = <<>>,
                                !.dibWidth = 0, !.dibHeight = 0,
                                !.virtWidth = 0, !.virtHeight = 0,
                                !.blits = "none"],
              ret |-> FALSE,
              calls |-> c1 \o <<"CreateDIBSection", "DeleteDC">>]
        ELSE [self |-> [s1 EXCEPT !.m_hdcMem = HANDLE, !.m_dibSection = HANDLE,
                                  !.m_dibBits = HANDLE, !.m_dibOld = HANDLE,
                                  !.m_depth = BitsPerPixel,
                                  !.m_stride = GDIStride(w, BitsPerPixel)],
              os |-> [os EXCEPT !.memDCs = @ + 1, !.dibs = @ + 1,
                                !.bitsLive = TRUE,
                                !.dibWidth = w, !.dibHeight = h,
                                !.virtWidth = env.virt[1],
                                !.virtHeight = env.virt[2],
                                !.blits = "none",
                                !.pixels = [i \in 1..h |-> <<0, 0>>]],
              ret |-> TRUE,
              calls |-> c1 \o <<"CreateDIBSection", "SelectObject">>]

\* Mutant: the handles are released and reset, the metadata is left as it was.
GDI_Shutdown_KeepMetadata(self, os) ==
    LET hadDC == self.m_hdcMem # NULL
        hadDIB == self.m_dibSection # NULL
    IN  [self |-> [self EXCEPT !.m_dibOld = NULL, !.m_hdcMem = NULL,
                               !.m_dibSection = NULL],
         os |-> [os EXCEPT
                   !.memDCs = IF hadDC THEN @ - 1 ELSE @,
                   !.dibs = IF hadDIB THEN @ - 1 ELSE @,
                   !.bitsLive = IF hadDIB THEN FALSE ELSE @,
                   !.pixels = IF hadDIB THEN <<>> ELSE @,
                   !.dibWidth = IF hadDIB THEN 0 ELSE @,
                   !.dibHeight = IF hadDIB THEN 0 ELSE @,
                   !.virtWidth = IF hadDIB THEN 0 ELSE @,
                   !.virtHeight = IF hadDIB THEN 0 ELSE @,
                   !.blits = IF hadDIB THEN "none" ELSE @],
         ret |-> TRUE,
         calls |-> (IF self.m_dibOld # NULL THEN <<"SelectObject">> ELSE <<>>)
                   \o (IF hadDC THEN <<"DeleteDC">> ELSE <<>>)
                   \o (IF hadDIB THEN <<"DeleteObject">> ELSE <<>>)]

GDI_Shutdown(self, os) ==
    LET hadDC == self.m_hdcMem # NULL
        hadDIB == self.m_dibSection # NULL
    IN  [self |-> [self EXCEPT !.m_dibOld = NULL, !.m_hdcMem = NULL,
                               !.m_dibSection = NULL,
                               !.m_width = 0, !.m_height = 0,
                               !.m_depth = 0, !.m_stride = 0],
         os |-> [os EXCEPT
                   !.memDCs = IF hadDC THEN @ - 1 ELSE @,
                   !.dibs = IF hadDIB THEN @ - 1 ELSE @,
                   !.bitsLive = IF hadDIB THEN FALSE ELSE @,
                   !.pixels = IF hadDIB THEN <<>> ELSE @,
                   !.dibWidth = IF hadDIB THEN 0 ELSE @,
                   !.dibHeight = IF hadDIB THEN 0 ELSE @,
                   !.virtWidth = IF hadDIB THEN 0 ELSE @,
                   !.virtHeight = IF hadDIB THEN 0 ELSE @,
                   !.blits = IF hadDIB THEN "none" ELSE @],
         ret |-> TRUE,
         calls |-> (IF self.m_dibOld # NULL THEN <<"SelectObject">> ELSE <<>>)
                   \o (IF hadDC THEN <<"DeleteDC">> ELSE <<>>)
                   \o (IF hadDIB THEN <<"DeleteObject">> ELSE <<>>)]

\* Mutant: the swap loop runs over every row, which flips the rows twice.
RECURSIVE SwapScanlines_AllRows(_, _, _)
SwapScanlines_AllRows(rows, y, height) ==
    IF y < height
    THEN SwapScanlines_AllRows([rows EXCEPT ![y + 1] = rows[height - y],
                                            ![height - y] = rows[y + 1]],
                               y + 1, height)
    ELSE rows

\* The scanline swap loop: for (y = 0; y < m_height / 2; y++) swap row y and
\* row m_height-1-y.  Rows are 1-based here.
RECURSIVE SwapScanlines(_, _, _)
SwapScanlines(rows, y, height) ==
    IF y < height \div 2
    THEN SwapScanlines([rows EXCEPT ![y + 1] = rows[height - y],
                                    ![height - y] = rows[y + 1]],
                       y + 1, height)
    ELSE rows

\* BitBlt into a bottom-up DIB: memory row i receives the screen scanline
\* height+1-i (counted from the top).  A scanline is <<frame, number>>.
BitBlt(frame, height) == [i \in 1..height |-> <<frame, height + 1 - i>>]

\* Mutant: the guard tests the width only.
GDI_CaptureFrame_WidthOnly(self, os, env) ==
    IF self.m_width = 0
    THEN [self |-> self, os |-> os, ret |-> FALSE, calls |-> <<>>]
    ELSE [self |-> self,
          os |-> [os EXCEPT
                    !.blits = IF @ = "none" THEN "once" ELSE "more",
                    !.pixels =
                        SwapScanlines(BitBlt(env.frame, self.m_height), 0,
                                      self.m_height)],
          ret |-> TRUE,
          calls |-> <<"GetDC", "BitBlt", "ReleaseDC">>]

\* env: [frame]
GDI_CaptureFrame(self, os, env) ==
    IF self.m_hdcMem = NULL \/ self.m_width = 0
    THEN [self |-> self, os |-> os, ret |-> FALSE, calls |-> <<>>]
    ELSE [self |-> self,
          os |-> [os EXCEPT
                    !.blits = IF @ = "none" THEN "once" ELSE "more",
                    !.pixels =
                        SwapScanlines(BitBlt(env.frame, self.m_height), 0,
                                      self.m_height)],
          ret |-> TRUE,
          calls |-> <<"GetDC", "BitBlt", "ReleaseDC">>]

GDI_GetFrameWidth(self) == self.m_width
GDI_GetFrameHeight(self) == self.m_height
GDI_GetFrameDepth(self) == self.m_depth
GDI_GetFrameStride(self) == self.m_stride
GDI_GetFrameBuffer(self) == self.m_dibBits

(***************************************************************************)
(* ScreenCaptureDX11                                                       *)
(***************************************************************************)
\* Member initialisers of a new instance.  m_frameBufferStorage: the vector
\* owns allocated storage (resize allocates it, clear keeps it).
DX_New ==
    [m_device |-> NULL, m_deviceContext |-> NULL, m_stagingTexture |-> NULL,
     m_outputDuplication |-> NULL, m_frameBuffer |-> <<>>,
     m_frameBufferStorage |-> FALSE,
     m_frameWidth |-> 0, m_frameHeight |-> 0, m_frameDepth |-> 0,
     m_frameStride |-> 0]

\* The driver's side.  frameHeld: the duplication session m_outputDuplication
\* refers to has an acquired frame that was not released; format, width,
\* height: that session's DXGI_OUTDUPL_DESC.ModeDesc; the counters: COM
\* objects created for the instance and not yet released.
DXGI_New ==
    [frameHeld |-> FALSE, format |-> 0, width |-> 0, height |-> 0,
     devices |-> 0, contexts |-> 0, dups |-> 0, textures |-> 0]

\* Mutant: every pixel format is taken for a 32-bit one.
IsFormat32bit_Any(fmt) == TRUE

IsFormat32bit(fmt) ==
    IF fmt # DXGI_FORMAT_B8G8R8A8_UNORM /\
       fmt # DXGI_FORMAT_B8G8R8X8_UNORM /\
       fmt # DXGI_FORMAT_B8G8R8A8_TYPELESS /\
       fmt # DXGI_FORMAT_B8G8R8A8_UNORM_SRGB /\
       fmt # DXGI_FORMAT_B8G8R8X8_TYPELESS /\
       fmt # DXGI_FORMAT_B8G8R8X8_UNORM_SRGB
    THEN FALSE
    ELSE TRUE

\* The driver types, in the order of the drivers[] array.
DriverCalls == <<"D3D11CreateDevice(HARDWARE)", "D3D11CreateDevice(WARP)",
                 "D3D11CreateDevice(REFERENCE)">>

\* Mutant: after a driver type failed, the next one in the array is skipped.
RECURSIVE InitializeDevice_SkipNext(_, _, _, _, _)
InitializeDevice_SkipNext(self, drv, devs, i, log) ==
    IF i > Len(DriverCalls)
    THEN [self |-> self, os |-> drv, ret |-> FALSE, calls |-> log]
    ELSE IF devs[i]
         THEN [self |-> [self EXCEPT !.m_device = HANDLE,
                                     !.m_deviceContext = HANDLE],
               os |-> [drv EXCEPT !.devices = @ + 1, !.contexts = @ + 1],
               ret |-> TRUE,
               calls |-> Append(log, DriverCalls[i])]
         ELSE InitializeDevice_SkipNext(
                  [self EXCEPT !.m_device = NULL, !.m_deviceContext = NULL],
                  drv, devs, i + 2, Append(log, DriverCalls[i]))

\* devs[i]: D3D11CreateDevice succeeds for driver type i.  A failed call
\* leaves both output pointers null.
RECURSIVE InitializeDevice(_, _, _, _, _)
InitializeDevice(self, drv, devs, i, log) ==
    IF i > Len(DriverCalls)
    THEN [self |-> self, os |-> drv, ret |-> FALSE, calls |-> log]
    ELSE IF devs[i]
         THEN [self |-> [self EXCEPT !.m_device = HANDLE,
                                     !.m_deviceContext = HANDLE],
               os |-> [drv EXCEPT !.devices = @ + 1, !.contexts = @ + 1],
               ret |-> TRUE,
               calls |-> Append(log, DriverCalls[i])]
         ELSE InitializeDevice([self EXCEPT !.m_device = NULL,
                                            !.m_deviceContext = NULL],
                               drv, devs, i + 1, Append(log, DriverCalls[i]))

\* The steps of StartOutputDuplication, in order; the sixth is DuplicateOutput
\* succeeding without handing back a session.
NegotiationCalls == <<"QueryInterface(IDXGIDevice)", "GetParent(IDXGIAdapter)",
                      "EnumOutputs(0)", "QueryInterface(IDXGIOutput1)",
                      "DuplicateOutput">>
NegotiationSteps == Len(NegotiationCalls) + 1

\* Mutant: a DuplicateOutput that succeeds without a session is not refused.
StartOutputDuplication_NoNullCheck(self, drv, failStep, format, mode) ==
    LET n == Len(NegotiationCalls)
        made == IF failStep = 0 \/ failStep > n THEN NegotiationCalls
                ELSE SubSeq(NegotiationCalls, 1, failStep)
    IN  IF failStep = 0
        THEN [self |-> [self EXCEPT !.m_outputDuplication = HANDLE],
              os |-> [drv EXCEPT !.dups = @ + 1, !.frameHeld = FALSE,
                                 !.format = format,
                                 !.width = mode[1], !.height = mode[2]],
              ret |-> TRUE, calls |-> made]
        ELSE IF failStep >= n
        THEN [self |-> [self EXCEPT !.m_outputDuplication = NULL],
              os |-> [drv EXCEPT !.frameHeld = FALSE, !.format = 0,
                                 !.width = 0, !.height = 0],
              ret |-> failStep > n, calls |-> made]
        ELSE [self |-> self, os |-> drv, ret |-> FALSE, calls |-> made]

\* failStep: 0 when every step succeeds, else the step that fails.
StartOutputDuplication(self, drv, failStep, format, mode) ==
    LET n == Len(NegotiationCalls)
        made == IF failStep = 0 \/ failStep > n THEN NegotiationCalls
                ELSE SubSeq(NegotiationCalls, 1, failStep)
    IN  IF failStep = 0
        THEN [self |-> [self EXCEPT !.m_outputDuplication = HANDLE],
              os |-> [drv EXCEPT !.dups = @ + 1, !.frameHeld = FALSE,
                                 !.format = format,
                                 !.width = mode[1], !.height = mode[2]],
              ret |-> TRUE, calls |-> made]
        ELSE IF failStep >= n
        THEN [self |-> [self EXCEPT !.m_outputDuplication = NULL],
              os |-> [drv EXCEPT !.frameHeld = FALSE, !.format = 0,
                                 !.width = 0, !.height = 0],
              ret |-> FALSE, calls |-> made]
        ELSE [self |-> self, os |-> drv, ret |-> FALSE, calls |-> made]

\* env: [devs, failStep, format, mode]
DX_Startup(self, drv, env) ==
    LET s0 == [self EXCEPT !.m_frameBuffer = <<>>,
                           !.m_frameWidth = 0, !.m_frameHeight = 0,
                           !.m_frameDepth = 0, !.m_frameStride = 0]
        dev == InitializeDevice(s0, drv, env.devs, 1, <<>>)
    IN  IF ~dev.ret
        THEN dev
        ELSE LET dup == StartOutputDuplication(dev.self, dev.os, env.failStep,
                                               env.format, env.mode)
             IN  [dup EXCEPT !.calls = dev.calls \o @]

\* Mutant: the duplication session is released last, after the device it was
\* created on.
DX_Shutdown_DupLast(self, drv) ==
    LET hadTex == self.m_stagingTexture # NULL
        hadDup == self.m_outputDuplication # NULL
        hadDev == self.m_device # NULL
        hadCtx == self.m_deviceContext # NULL
    IN  [self |-> [self EXCEPT !.m_stagingTexture = NULL,
                               !.m_outputDuplication = NULL,
                               !.m_device = NULL,
                               !.m_deviceContext = NULL,
                               !.m_frameBuffer = <<>>],
         os |-> [drv EXCEPT
                   !.textures = IF hadTex THEN @ - 1 ELSE @,
                   !.dups = IF hadDup THEN @ - 1 ELSE @,
                   !.devices = IF hadDev THEN @ - 1 ELSE @,
                   !.contexts = IF hadCtx THEN @ - 1 ELSE @,
                   !.frameHeld = IF hadDup THEN FALSE ELSE @,
                   !.format = IF hadDup THEN 0 ELSE @,
                   !.width = IF hadDup THEN 0 ELSE @,
                   !.height = IF hadDup THEN 0 ELSE @],
         ret |-> TRUE,
         calls |-> (IF hadTex THEN <<"Release(stagingTexture)">> ELSE <<>>)
                   \o (IF hadDev THEN <<"Release(device)">> ELSE <<>>)
                   \o (IF hadCtx THEN <<"Release(deviceContext)">> ELSE <<>>)
                   \o (IF hadDup THEN <<"Release(outputDuplication)">> ELSE <<>>)]

\* Mutant: the handles are released without the null checks.
DX_Shutdown_Unguarded(self, drv) ==
    [self |-> [self EXCEPT !.m_stagingTexture = NULL,
                           !.m_outputDuplication = NULL,
                           !.m_device = NULL,
                           !.m_deviceContext = NULL,
                           !.m_frameBuffer = <<>>],
     os |-> [drv EXCEPT !.textures = @ - 1, !.dups = @ - 1,
                        !.devices = @ - 1, !.contexts = @ - 1,
                        !.frameHeld = FALSE, !.format = 0,
                        !.width = 0, !.height = 0],
     ret |-> TRUE,
     calls |-> <<"Release(stagingTexture)", "Release(outputDuplication)",
                 "Release(device)", "Release(deviceContext)">>]

DX_Shutdown(self, drv) ==
    LET hadTex == self.m_stagingTexture # NULL
        hadDup == self.m_outputDuplication # NULL
        hadDev == self.m_device # NULL
        hadCtx == self.m_deviceContext # NULL
    IN  [self |-> [self EXCEPT !.m_stagingTexture = NULL,
                               !.m_outputDuplication = NULL,
                               !.m_device = NULL,
                               !.m_deviceContext = NULL,
                               !.m_frameBuffer = <<>>],
         os |-> [drv EXCEPT
                   !.textures = IF hadTex THEN @ - 1 ELSE @,
                   !.dups = IF hadDup THEN @ - 1 ELSE @,
                   !.devices = IF hadDev THEN @ - 1 ELSE @,
                   !.contexts = IF hadCtx THEN @ - 1 ELSE @,
                   !.frameHeld = IF hadDup THEN FALSE ELSE @,
                   !.format = IF hadDup THEN 0 ELSE @,
                   !.width = IF hadDup THEN 0 ELSE @,
                   !.height = IF hadDup THEN 0 ELSE @],
         ret |-> TRUE,
         calls |-> (IF hadTex THEN <<"Release(stagingTexture)">> ELSE <<>>)
                   \o (IF hadDup THEN <<"Release(outputDuplication)">> ELSE <<>>)
                   \o (IF hadDev THEN <<"Release(device)">> ELSE <<>>)
                   \o (IF hadCtx THEN <<"Release(deviceContext)">> ELSE <<>>)]

\* What IDXGIOutputDuplication::AcquireNextFrame answers.  While the previous
\* frame has not been released the driver refuses (DXGI_ERROR_INVALID_CALL);
\* otherwise the answer is the environment's.
Failures == {"Timeout", "Error", "InvalidCall"}
DriverAcquire(held, answer) == IF held THEN "InvalidCall" ELSE answer

\* The answer to the i-th acquire of a call; once the script is used up the
\* screen no longer changes.
ScriptAt(script, i) == IF i <= Len(script) THEN script[i] ELSE "Timeout"

\* Mutant: the loop goes on after an acquire that failed.
RECURSIVE AcquireLoop_RetryOnFailure(_, _, _, _, _)
AcquireLoop_RetryOnFailure(attempt, hr, held, script, log) ==
    IF attempt >= AcquireAttempts
    THEN [hr |-> hr, resource |-> NULL, held |-> held, calls |-> log]
    ELSE LET answer == DriverAcquire(held, ScriptAt(script, attempt + 1))
             log1 == Append(log, "AcquireNextFrame")
         IN  IF answer = "ZeroMarker"
             THEN AcquireLoop_RetryOnFailure(attempt + 1, "S_OK", FALSE,
                      script, log1 \o <<"ReleaseFrame", "Sleep">>)
             ELSE IF answer = "NoSurface"
             THEN AcquireLoop_RetryOnFailure(attempt + 1, "S_OK", FALSE,
                      script, log1 \o <<"ReleaseFrame", "Sleep">>)
             ELSE IF answer = "Full"
             THEN [hr |-> "S_OK", resource |-> HANDLE, held |-> TRUE,
                   calls |-> log1]
             ELSE AcquireLoop_RetryOnFailure(attempt + 1, answer, held,
                      script, log1)

\* Mutant: the frame is released after an acquire that failed, too.
RECURSIVE AcquireLoop_ReleaseOnFailure(_, _, _, _, _)
AcquireLoop_ReleaseOnFailure(attempt, hr, held, script, log) ==
    IF attempt >= AcquireAttempts
    THEN [hr |-> hr, resource |-> NULL, held |-> held, calls |-> log]
    ELSE LET answer == DriverAcquire(held, ScriptAt(script, attempt + 1))
             log1 == Append(log, "AcquireNextFrame")
         IN  IF answer = "ZeroMarker"
             THEN AcquireLoop_ReleaseOnFailure(attempt + 1, "S_OK", FALSE,
                      script, log1 \o <<"ReleaseFrame", "Sleep">>)
             ELSE IF answer = "NoSurface"
             THEN AcquireLoop_ReleaseOnFailure(attempt + 1, "S_OK", FALSE,
                      script, log1 \o <<"ReleaseFrame", "Sleep">>)
             ELSE IF answer = "Full"
             THEN [hr |-> "S_OK", resource |-> HANDLE, held |-> TRUE,
                   calls |-> log1]
             ELSE [hr |-> answer, resource |-> NULL, held |-> held,
                   calls |-> Append(log1, "ReleaseFrame")]

\* The retry loop of AcquireNextFrame.  Gives the last hr, desktopResource,
\* whether a frame is held and the driver calls made.
RECURSIVE AcquireLoop(_, _, _, _, _)
AcquireLoop(attempt, hr, held, script, log) ==
    IF attempt >= AcquireAttempts
    THEN [hr |-> hr, resource |-> NULL, held |-> held, calls |-> log]
    ELSE LET answer == DriverAcquire(held, ScriptAt(script, attempt + 1))
             log1 == Append(log, "AcquireNextFrame")
         IN  IF answer = "ZeroMarker"
             THEN AcquireLoop(attempt + 1, "S_OK", FALSE, script,
                              log1 \o <<"ReleaseFrame", "Sleep">>)
             ELSE IF answer = "NoSurface"
             THEN AcquireLoop(attempt + 1, "S_OK", FALSE, script,
                              log1 \o <<"ReleaseFrame", "Sleep">>)
             ELSE IF answer = "Full"
             THEN [hr |-> "S_OK", resource |-> HANDLE, held |-> TRUE,
                   calls |-> log1]
             ELSE [hr |-> answer, resource |-> NULL, held |-> held,
                   calls |-> log1]

\* env.qiOK: QueryInterface(ID3D11Texture2D) succeeds.
AcquireNextFrame(held, script, qiOK) ==
    LET got == AcquireLoop(0, "E_FAIL", held, script, <<>>)
    IN  IF got.hr \in Failures \/ got.hr = "E_FAIL" \/ got.resource = NULL
        THEN [ret |-> FALSE, image |-> NULL, held |-> got.held,
              calls |-> got.calls]
        ELSE IF ~qiOK
        THEN [ret |-> FALSE, image |-> NULL, held |-> got.held,
              calls |-> Append(got.calls, "QueryInterface(ID3D11Texture2D)")]
        ELSE [ret |-> TRUE, image |-> HANDLE, held |-> got.held,
              calls |-> Append(got.calls, "QueryInterface(ID3D11Texture2D)")]

\* Mutant: resize appends the n bytes to what the buffer holds.
Resize_Append(buf, n) == buf \o [i \in 1..n |-> 0]

\* std::vector::resize and memcpy on a buffer of bytes.
Resize(buf, n) ==
    IF n <= Len(buf) THEN SubSeq(buf, 1, n)
    ELSE buf \o [i \in 1..(n - Len(buf)) |-> 0]
Memcpy(dst, src, n) == [i \in 1..Len(dst) |-> IF i <= n THEN src[i] ELSE dst[i]]

\* The mapped staging texture: rowPitch bytes a row, every byte of frame f
\* written as f.
Mapped(frame, rowPitch, height) == [i \in 1..(rowPitch * height) |-> frame]

\* env: [mapOK, pad, frame]; the staging texture has the session's size and
\* the map gives rows of width*4 + pad bytes.
CopyStagingTextureToMemory(self, drv, env) ==
    IF self.m_deviceContext = NULL
    THEN [self |-> self, ret |-> FALSE, calls |-> <<>>]
    ELSE IF ~env.mapOK
    THEN [self |-> self, ret |-> FALSE, calls |-> <<"Map">>]
    ELSE LET rowPitch == drv.width * (BitsPerPixel \div 8) + env.pad
             size == rowPitch * drv.height
             buf == Resize(self.m_frameBuffer, size)
         IN  [self |-> [self EXCEPT
                          !.m_frameWidth = drv.width,
                          !.m_frameHeight = drv.height,
                          !.m_frameStride = rowPitch,
                          !.m_frameDepth = BitsPerPixel,
                          !.m_frameBufferStorage = @ \/ size > 0,
                          !.m_frameBuffer =
                              Memcpy(buf, Mapped(env.frame, rowPitch,
                                                 drv.height), size)],
              ret |-> TRUE, calls |-> <<"Map", "Unmap">>]

\* ok: CreateTexture2D succeeds and hands back a texture.
CreateStagingTexture(self, drv, ok) ==
    IF ok
    THEN [self |-> [self EXCEPT !.m_stagingTexture = HANDLE],
          os |-> [drv EXCEPT !.textures = @ + 1], ret |-> TRUE]
    ELSE [self |-> self, os |-> drv, ret |-> FALSE]

\* Mutant: the staging texture is not released after the copy.
CaptureCopied_KeepStaging(cp, drv, log) ==
    [self |-> cp.self,
     os |-> [drv EXCEPT !.frameHeld = FALSE],
     ret |-> cp.ret,
     calls |-> log \o <<"GetDesc", "CreateTexture2D", "CopyResource">>
                   \o cp.calls
                   \o <<"ReleaseFrame">>]

\* Mutant: the result of CopyStagingTextureToMemory is ignored.
CaptureCopied_IgnoreCopyResult(cp, drv, log) ==
    [self |-> [cp.self EXCEPT !.m_stagingTexture = NULL],
     os |-> [drv EXCEPT !.frameHeld = FALSE, !.textures = @ - 1],
     ret |-> TRUE,
     calls |-> log \o <<"GetDesc", "CreateTexture2D", "CopyResource">>
                   \o cp.calls
                   \o <<"Release(stagingTexture)", "ReleaseFrame">>]

\* CaptureFrame from the copy on: cp is what CopyStagingTextureToMemory gave,
\* drv the driver with the staging texture alive.
CaptureCopied(cp, drv, log) ==
    [self |-> [cp.self EXCEPT !.m_stagingTexture = NULL],
     os |-> [drv EXCEPT !.frameHeld = FALSE, !.textures = @ - 1],
     ret |-> cp.ret,
     calls |-> log \o <<"GetDesc", "CreateTexture2D", "CopyResource">>
                   \o cp.calls
                   \o <<"Release(stagingTexture)", "ReleaseFrame">>]

\* Mutant: a failed CreateStagingTexture returns without ReleaseFrame.
CaptureAcquired_KeepFrame(s0, drv, env, acq) ==
    IF ~acq.ret \/ acq.image = NULL
    THEN [self |-> s0, os |-> drv, ret |-> FALSE, calls |-> acq.calls]
    ELSE IF ~IsFormat32bit(drv.format)
    THEN [self |-> s0, os |-> drv, ret |-> FALSE,
          calls |-> Append(acq.calls, "GetDesc")]
    ELSE LET st == CreateStagingTexture(s0, drv, env.stagingOK)
         IN  IF ~st.ret
             THEN [self |-> st.self,
                   os |-> st.os,
                   ret |-> FALSE,
                   calls |-> acq.calls \o <<"GetDesc", "CreateTexture2D">>]
             ELSE CaptureCopied(
                      CopyStagingTextureToMemory(st.self, st.os, env),
                      st.os, acq.calls)

\* CaptureFrame from the acquire on: acq is what AcquireNextFrame gave, s0 the
\* instance with its metadata zeroed and drv the driver after the acquire.
CaptureAcquired(s0, drv, env, acq) ==
    IF ~acq.ret \/ acq.image = NULL
    THEN [self |-> s0, os |-> drv, ret |-> FALSE, calls |-> acq.calls]
    ELSE IF ~IsFormat32bit(drv.format)
    THEN [self |-> s0, os |-> drv, ret |-> FALSE,
          calls |-> Append(acq.calls, "GetDesc")]
    ELSE LET st == CreateStagingTexture(s0, drv, env.stagingOK)
         IN  IF ~st.ret
             THEN [self |-> st.self,
                   os |-> [st.os EXCEPT !.frameHeld = FALSE],
                   ret |-> FALSE,
                   calls |-> acq.calls \o <<"GetDesc", "CreateTexture2D",
                                            "ReleaseFrame">>]
             ELSE CaptureCopied(
                      CopyStagingTextureToMemory(st.self, st.os, env),
                      st.os, acq.calls)

\* The driver after the acquire.
AfterAcquire(drv, acq) == [drv EXCEPT !.frameHeld = acq.held]

\* CaptureFrame once the metadata is zeroed.
CaptureZeroed(s0, drv, env, acq) ==
    IF s0.m_device = NULL \/ s0.m_deviceContext = NULL
       \/ s0.m_outputDuplication = NULL
    THEN [self |-> s0, os |-> drv, ret |-> FALSE, calls |-> <<>>]
    ELSE CaptureAcquired(s0, AfterAcquire(drv, acq), env, acq)

\* Mutant: the metadata is not zeroed on entry.
DX_CaptureFrame_NoZero(self, drv, env) ==
    CaptureZeroed(self, drv, env,
                  AcquireNextFrame(drv.frameHeld, env.script, env.qiOK))

\* env: [script, qiOK, stagingOK, mapOK, pad, frame]
DX_CaptureFrame(self, drv, env) ==
    CaptureZeroed([self EXCEPT !.m_frameWidth = 0, !.m_frameHeight = 0,
                               !.m_frameStride = 0, !.m_frameDepth = 0],
                  drv, env,
                  AcquireNextFrame(drv.frameHeld, env.script, env.qiOK))

DX_GetFrameWidth(self) == self.m_frameWidth
DX_GetFrameHeight(self) == self.m_frameHeight
DX_GetFrameDepth(self) == self.m_frameDepth
DX_GetFrameStride(self) == self.m_frameStride
\* m_frameBuffer.data(): null for a vector that holds no storage, the address
\* of the storage otherwise, also when the vector is empty after clear().
DX_GetFrameBuffer(self) ==
    IF self.m_frameBufferStorage THEN HANDLE ELSE NULL

(***************************************************************************)
(* ScreenCapture (the facade).  Its methods work on the whole world w:     *)
(* the facade's members, the backend instances they point to and the       *)
(* native state.                                                           *)
(***************************************************************************)
World == [m_mode |-> m_mode, m_capgdi |-> m_capgdi, m_capdx11 |-> m_capdx11,
          leaked |-> leaked, gdi |-> gdi, dx |-> dx, gdios |-> gdios,
          dxgi |-> dxgi]

\* Mutant: Shutdown leaves the mode as it was.
SC_Shutdown_KeepMode(w) ==
    LET g == GDI_Shutdown(w.gdi, w.gdios)
        d == DX_Shutdown(w.dx, w.dxgi)
        delG == w.m_capgdi # NULL
        delD == w.m_capdx11 # NULL
    IN  [w |-> [w EXCEPT !.gdi = IF delG THEN GDI_New ELSE @,
                         !.gdios = IF delG THEN g.os ELSE @,
                         !.dx = IF delD THEN DX_New ELSE @,
                         !.dxgi = IF delD THEN d.os ELSE @,
                         !.m_capgdi = NULL,
                         !.m_capdx11 = NULL],
         ret |-> TRUE,
         calls |-> (IF delG THEN <<"delete(GDI)">> \o g.calls ELSE <<>>)
                   \o (IF delD THEN <<"delete(DX11)">> \o d.calls ELSE <<>>)]

\* delete m_capgdi / delete m_capdx11 run the destructor, which is the
\* backend's Shutdown; afterwards no instance exists.
SC_Shutdown(w) ==
    LET g == GDI_Shutdown(w.gdi, w.gdios)
        d == DX_Shutdown(w.dx, w.dxgi)
        delG == w.m_capgdi # NULL
        delD == w.m_capdx11 # NULL
    IN  [w |-> [w EXCEPT !.gdi = IF delG THEN GDI_New ELSE @,
                         !.gdios = IF delG THEN g.os ELSE @,
                         !.dx = IF delD THEN DX_New ELSE @,
                         !.dxgi = IF delD THEN d.os ELSE @,
                         !.m_capgdi = NULL,
                         !.m_capdx11 = NULL,
                         !.m_mode = ScreenCaptureMode_Invalid],
         ret |-> TRUE,
         calls |-> (IF delG THEN <<"delete(GDI)">> \o g.calls ELSE <<>>)
                   \o (IF delD THEN <<"delete(DX11)">> \o d.calls ELSE <<>>)]

\* Mutant: the previous session is not shut down.
ShutdownPrevious_Skip(w, mode) == [w |-> w, ret |-> TRUE, calls |-> <<>>]

\* Mutant: the previous session is shut down only when the mode changes.
ShutdownPrevious_OnModeChange(w, mode) ==
    IF w.m_mode # ScreenCaptureMode_Invalid /\ w.m_mode # mode
    THEN SC_Shutdown(w)
    ELSE [w |-> w, ret |-> TRUE, calls |-> <<>>]

\* "Shut down the previous capture session first."
ShutdownPrevious(w, mode) ==
    IF w.m_mode # ScreenCaptureMode_Invalid
    THEN SC_Shutdown(w)
    ELSE [w |-> w, ret |-> TRUE, calls |-> <<>>]

\* Mutant: every mode that is not GDI is taken to be DX11.
SC_Startup_ElseDX11(w, mode, env) ==
    LET sh == ShutdownPrevious(w, mode)
        w1 == [sh.w EXCEPT !.m_mode = mode]
    IN  IF mode = ScreenCaptureMode_GDI
        THEN LET r == GDI_Startup(GDI_New, w1.gdios, env.gdi)
             IN  [w |-> [w1 EXCEPT
                           !.leaked = @ + (IF w1.m_capgdi # NULL THEN 1 ELSE 0),
                           !.m_capgdi = HANDLE,
                           !.gdi = r.self, !.gdios = r.os],
                  ret |-> r.ret,
                  calls |-> sh.calls \o <<"new(GDI)">> \o r.calls]
        ELSE LET r == DX_Startup(DX_New, w1.dxgi, env.dx)
             IN  [w |-> [w1 EXCEPT
                           !.leaked = @ + (IF w1.m_capdx11 # NULL THEN 1 ELSE 0),
                           !.m_capdx11 = HANDLE,
                           !.dx = r.self, !.dxgi = r.os],
                  ret |-> r.ret,
                  calls |-> sh.calls \o <<"new(DX11)">> \o r.calls]

\* Mutant: a Startup for the mode of the installed backend starts that
\* backend again.
SC_Startup_Reuse(w, mode, env) ==
    IF mode = ScreenCaptureMode_GDI /\ w.m_capgdi # NULL
    THEN LET r == GDI_Startup(w.gdi, w.gdios, env.gdi)
         IN  [w |-> [w EXCEPT !.gdi = r.self, !.gdios = r.os],
              ret |-> r.ret, calls |-> r.calls]
    ELSE IF mode = ScreenCaptureMode_DX11 /\ w.m_capdx11 # NULL
    THEN LET r == DX_Startup(w.dx, w.dxgi, env.dx)
         IN  [w |-> [w EXCEPT !.dx = r.self, !.dxgi = r.os],
              ret |-> r.ret, calls |-> r.calls]
    ELSE SC_Startup_ElseDX11(w, mode, env)

\* env: [gdi: the environment of ScreenCaptureGDI::Startup,
\*       dx:  the environment of ScreenCaptureDX11::Startup]
SC_Startup(w, mode, env) ==
    LET sh == ShutdownPrevious(w, mode)
        w1 == [sh.w EXCEPT !.m_mode = mode]
    IN  IF mode = ScreenCaptureMode_GDI
        THEN LET r == GDI_Startup(GDI_New, w1.gdios, env.gdi)
             IN  [w |-> [w1 EXCEPT
                           !.leaked = @ + (IF w1.m_capgdi # NULL THEN 1 ELSE 0),
                           !.m_capgdi = HANDLE,
                           !.gdi = r.self, !.gdios = r.os],
                  ret |-> r.ret,
                  calls |-> sh.calls \o <<"new(GDI)">> \o r.calls]
        ELSE IF mode = ScreenCaptureMode_DX11
        THEN LET r == DX_Startup(DX_New, w1.dxgi, env.dx)
             IN  [w |-> [w1 EXCEPT
                           !.leaked = @ + (IF w1.m_capdx11 # NULL THEN 1 ELSE 0),
                           !.m_capdx11 = HANDLE,
                           !.dx = r.self, !.dxgi = r.os],
                  ret |-> r.ret,
                  calls |-> sh.calls \o <<"new(DX11)">> \o r.calls]
        ELSE [w |-> w1, ret |-> FALSE, calls |-> sh.calls]

\* env: [gdi: the environment of ScreenCaptureGDI::CaptureFrame,
\*       dx:  the environment of ScreenCaptureDX11::CaptureFrame]
SC_CaptureFrame(w, env) ==
    IF w.m_capgdi # NULL
    THEN LET r == GDI_CaptureFrame(w.gdi, w.gdios, env.gdi)
         IN  [w |-> [w EXCEPT !.gdi = r.self, !.gdios = r.os],
              ret |-> r.ret, calls |-> r.calls]
    ELSE IF w.m_capdx11 # NULL
    THEN LET r == DX_CaptureFrame(w.dx, w.dxgi, env.dx)
         IN  [w |-> [w EXCEPT !.dx = r.self, !.dxgi = r.os],
              ret |-> r.ret, calls |-> r.calls]
    ELSE [w |-> w, ret |-> FALSE, calls |-> <<>>]

SC_GetCaptureMode(w) == w.m_mode
SC_GetFrameWidth(w) ==
    IF w.m_capgdi # NULL THEN GDI_GetFrameWidth(w.gdi)
    ELSE IF w.m_capdx11 # NULL THEN DX_GetFrameWidth(w.dx) ELSE 0
SC_GetFrameHeight(w) ==
    IF w.m_capgdi # NULL THEN GDI_GetFrameHeight(w.gdi)
    ELSE IF w.m_capdx11 # NULL THEN DX_GetFrameHeight(w.dx) ELSE 0
SC_GetFrameDepth(w) ==
    IF w.m_capgdi # NULL THEN GDI_GetFrameDepth(w.gdi)
    ELSE IF w.m_capdx11 # NULL THEN DX_GetFrameDepth(w.dx) ELSE 0
SC_GetFrameStride(w) ==
    IF w.m_capgdi # NULL THEN GDI_GetFrameStride(w.gdi)
    ELSE IF w.m_capdx11 # NULL THEN DX_GetFrameStride(w.dx) ELSE 0
SC_GetFrameBuffer(w) ==
    IF w.m_capgdi # NULL THEN GDI_GetFrameBuffer(w.gdi)
    ELSE IF w.m_capdx11 # NULL THEN DX_GetFrameBuffer(w.dx) ELSE NULL

(***************************************************************************)
(* VideoFileEncoder                                                        *)
(***************************************************************************)
\* Member initialisers, and the flags the constructor stores.  m_pixels: the
\* scanlines of the encoder's copy of the frame, in memory order; a scanline
\* is <<frame, screen row>>, Blank when its bytes are zero and <<frame, 0>>
\* when its bytes are not those of one screen row.
VFE_New(doMFStartup, doCoInitialize) ==
    [m_width |-> 0, m_height |-> 0, m_fps |-> 0, m_frameDuration |-> 0,
     m_pixels |-> <<>>, m_pSinkWriter |-> NULL,
     m_doMFStartup |-> doMFStartup, m_doCoInitialize |-> doCoInitialize]

Blank == <<0, 0>>

\* Media Foundation and COM as the process sees them.  co, mf: calls of
\* CoInitializeEx and MFStartup not yet matched by CoUninitialize and
\* MFShutdown; writers: sink writers alive; samples: whether a sample was
\* written to the sink writer alive.
MF_New == [co |-> 0, mf |-> 0, writers |-> 0, samples |-> FALSE]

\* VideoFileEncoder::VideoFileEncoder(doMFStartup, doCoInitialize)
VFE_Construct(doMFStartup, doCoInitialize, mf) ==
    [self |-> VFE_New(doMFStartup, doCoInitialize),
     os |-> [mf EXCEPT !.co = @ + 1, !.mf = @ + 1],
     ret |-> TRUE,
     calls |-> <<"CoInitializeEx", "MFStartup">>]

VFE_Stop(self, mf, finalizeOK) ==
    IF self.m_pSinkWriter = NULL
    THEN [self |-> self, os |-> mf, ret |-> FALSE, calls |-> <<>>]
    ELSE [self |-> [self EXCEPT !.m_pSinkWriter = NULL],
          os |-> [mf EXCEPT !.writers = @ - 1, !.samples = FALSE],
          ret |-> finalizeOK,
          calls |-> <<"Finalize", "Release(sinkWriter)">>]

\* VideoFileEncoder::~VideoFileEncoder()
VFE_Destroy(self, mf, finalizeOK) ==
    LET st == VFE_Stop(self, mf, finalizeOK)
    IN  [self |-> st.self,
         os |-> [st.os EXCEPT
                   !.mf = IF self.m_doMFStartup THEN @ - 1 ELSE @,
                   !.co = IF self.m_doCoInitialize THEN @ - 1 ELSE @],
         ret |-> TRUE,
         calls |-> st.calls
                   \o (IF self.m_doMFStartup THEN <<"MFShutdown">> ELSE <<>>)
                   \o (IF self.m_doCoInitialize THEN <<"CoUninitialize">>
                       ELSE <<>>)]

\* m_pixels.resize(width * height * sizeof(uint32_t)) on scanlines that were
\* oldWidth pixels wide: the bytes kept stay where they are, the new ones
\* are zero.
ResizeRows(rows, oldWidth, width, height) ==
    [r \in 1..height |->
        IF rows = <<>> THEN Blank
        ELSE IF width = oldWidth
        THEN (IF r <= Len(rows) THEN rows[r] ELSE Blank)
        ELSE IF (r - 1) * width < Len(rows) * oldWidth
        THEN <<rows[1][1], 0>>
        ELSE Blank]

SetFrameFormat(self, width, height, fps) ==
    IF width < 1 \/ height < 1 \/ fps < 1
    THEN [self |-> self, ret |-> FALSE]
    ELSE [self |-> [self EXCEPT
                      !.m_width = width,
                      !.m_height = height,
                      !.m_fps = fps,
                      !.m_frameDuration = (10 * 1000 * 1000) \div fps,
                      !.m_pixels = ResizeRows(@, self.m_width, width, height)],
          ret |-> TRUE]

\* env: [finalizeOK: Finalize succeeds, sinkOK: every step of
\*       InitializeSinkWriter succeeds]
VFE_Start(self, mf, width, height, fps, env) ==
    LET st == IF self.m_pSinkWriter # NULL
              THEN VFE_Stop(self, mf, env.finalizeOK)
              ELSE [self |-> self, os |-> mf, ret |-> TRUE, calls |-> <<>>]
        ff == SetFrameFormat(st.self, width, height, fps)
    IN  IF ~ff.ret
        THEN [self |-> ff.self, os |-> st.os, ret |-> FALSE, calls |-> st.calls]
        ELSE IF env.sinkOK
        THEN [self |-> [ff.self EXCEPT !.m_pSinkWriter = HANDLE],
              os |-> [st.os EXCEPT !.writers = @ + 1, !.samples = FALSE],
              ret |-> TRUE,
              calls |-> st.calls \o <<"MFCreateSinkWriterFromURL",
                                      "BeginWriting">>]
        ELSE [self |-> [ff.self EXCEPT !.m_pSinkWriter = NULL],
              os |-> st.os,
              ret |-> FALSE,
              calls |-> Append(st.calls, "MFCreateSinkWriterFromURL")]

\* A caller's pixel buffer: ptr its address, rows its scanlines in memory
\* order and stride the bytes from one scanline to the next.
NoPixels == [ptr |-> NULL, rows |-> <<>>, stride |-> 0]
Pixels(rows, stride) == [ptr |-> HANDLE, rows |-> rows, stride |-> stride]

\* memcpy(m_pixels.data(), pixels, m_width * m_height * sizeof(uint32_t)): the
\* bytes are taken as they lie, so behind the first scanline a source with
\* padded scanlines does not give scanlines of the screen.
CopyPixels(pixels, width, height) ==
    [r \in 1..height |->
        IF r > Len(pixels.rows) THEN Blank
        ELSE IF r = 1 \/ pixels.stride = width * (BitsPerPixel \div 8)
        THEN pixels.rows[r]
        ELSE <<pixels.rows[r][1], 0>>]

\* The flipY loop of AddFrame.
RECURSIVE FlipY(_, _, _)
FlipY(rows, y, height) ==
    IF y < height \div 2
    THEN FlipY([rows EXCEPT ![y + 1] = rows[height - y],
                            ![height - y] = rows[y + 1]],
               y + 1, height)
    ELSE rows

\* env: [bufferOK: the sample and its buffer are made, writeOK: WriteSample
\*       succeeds].  fault: WriteSample was called through a null pWriter.
WriteFrame(pWriter, mf, env) ==
    IF ~env.bufferOK
    THEN [os |-> mf, ret |-> FALSE, fault |-> FALSE,
          calls |-> <<"MFCreateMemoryBuffer">>]
    ELSE IF pWriter = NULL
    THEN [os |-> mf, ret |-> env.writeOK, fault |-> TRUE,
          calls |-> <<"MFCreateMemoryBuffer", "WriteSample">>]
    ELSE [os |-> IF env.writeOK THEN [mf EXCEPT !.samples = TRUE] ELSE mf,
          ret |-> env.writeOK, fault |-> FALSE,
          calls |-> <<"MFCreateMemoryBuffer", "WriteSample">>]

VFE_AddFrame(self, mf, pixels, flipY, timestamp, env) ==
    IF pixels.ptr = NULL \/ self.m_pixels = <<>>
    THEN [self |-> self, os |-> mf, ret |-> FALSE, fault |-> FALSE,
          calls |-> <<>>]
    ELSE LET copied == CopyPixels(pixels, self.m_width, self.m_height)
             rows == IF flipY THEN FlipY(copied, 0, self.m_height)
                     ELSE copied
             wr == WriteFrame(self.m_pSinkWriter, mf, env)
         IN  [self |-> [self EXCEPT !.m_pixels = rows],
              os |-> wr.os, ret |-> wr.ret, fault |-> wr.fault,
              calls |-> wr.calls]

VFE_GetWidth(self) == self.m_width
VFE_GetHeight(self) == self.m_height
VFE_GetFrameDuration(self) == self.m_frameDuration

(***************************************************************************)
(* capenctest: main().  m: its locals and its position; w: the ScreenCapture*)
(* cap with its backends and native state; e: the VideoFileEncoder encoder, *)
(* Media Foundation and the arguments of the last AddFrame call.           *)
(***************************************************************************)
\* pc: "start" before main runs, "loop" at the head of the for loop, "exit"
\* once main has returned the value exit.
Main_New ==
    [pc |-> "start", iframe |-> 0, numFrames |-> 0, timestamp |-> 0,
     exit |-> 0]

NoArg == [flipY |-> FALSE, timestamp |-> 0]

\* alive: the encoder is constructed and not destroyed; fault: WriteSample
\* was called through a null sink writer; arg: the flipY and timestamp
\* arguments of the last AddFrame call.
Enc_New ==
    [alive |-> FALSE, self |-> VFE_New(FALSE, FALSE), os |-> MF_New,
     fault |-> FALSE, arg |-> NoArg]

\* The encoder after AddFrame(pixels, flipY, timestamp) gave a.
EncAdded(e, a, flipY, timestamp) ==
    [e EXCEPT !.self = a.self, !.os = a.os,
              !.fault = @ \/ a.fault,
              !.arg = [flipY |-> flipY, timestamp |-> timestamp]]

\* The scanlines of the duplication backend's buffer: the bytes of the mapped
\* texture, whose row r is screen row r.
DXRows(self) ==
    [r \in 1..self.m_frameHeight |->
        <<self.m_frameBuffer[(r - 1) * self.m_frameStride + 1], r>>]

\* cap.GetFrameBuffer(), with the scanlines it points to.
CapPixels(w) ==
    IF SC_GetFrameBuffer(w) = NULL THEN NoPixels
    ELSE IF w.m_capgdi # NULL
    THEN Pixels(w.gdios.pixels, SC_GetFrameStride(w))
    ELSE Pixels(DXRows(w.dx), SC_GetFrameStride(w))

\* return code: the destructors of encoder and then of cap run.
Main_Return(m, w, e, code, finalizeOK, log) ==
    LET d == VFE_Destroy(e.self, e.os, finalizeOK)
        sh == SC_Shutdown(w)
    IN  [m |-> [m EXCEPT !.pc = "exit", !.exit = code],
         w |-> sh.w,
         e |-> [e EXCEPT !.alive = FALSE, !.self = d.self, !.os = d.os],
         calls |-> log \o <<"~VideoFileEncoder">> \o d.calls
                       \o <<"~ScreenCapture">> \o sh.calls]

\* main() up to the for loop.  arg: argv[1], "" when there is none;
\* env: the environment of ScreenCapture::Startup.
Main_Begin(m, w, e, arg, env) ==
    LET mode == IF arg = "GDI" THEN ScreenCaptureMode_GDI
                ELSE IF arg = "DX11" THEN ScreenCaptureMode_DX11
                ELSE ScreenCaptureMode_Invalid
    IN  IF mode = ScreenCaptureMode_Invalid
        THEN [m |-> [m EXCEPT !.pc = "exit", !.exit = -1],
              w |-> w, e |-> e, calls |-> <<>>]
        ELSE LET st == SC_Startup(w, mode, env)
             IN  IF ~st.ret
                 THEN LET sh == SC_Shutdown(st.w)
                      IN  [m |-> [m EXCEPT !.pc = "exit", !.exit = -1],
                           w |-> sh.w, e |-> e,
                           calls |-> st.calls \o <<"~ScreenCapture">>
                                              \o sh.calls]
                 ELSE LET c == VFE_Construct(TRUE, TRUE, e.os)
                      IN  [m |-> [m EXCEPT !.pc = "loop"],
                           w |-> st.w,
                           e |-> [e EXCEPT !.alive = TRUE, !.self = c.self,
                                           !.os = c.os],
                           calls |-> st.calls \o c.calls]

\* Mutant: a capture attempt that gives no frame advances the timestamp too.
Main_Iteration_AlwaysAdvance(m, w, e, env) ==
    LET c == SC_CaptureFrame(w, env.cap)
    IN  IF ~c.ret \/ SC_GetFrameWidth(c.w) < 1
        THEN [m |-> [m EXCEPT !.iframe = @ + 1, !.timestamp = @ + 1],
              w |-> c.w, e |-> e, calls |-> c.calls]
        ELSE LET st == IF m.numFrames = 0
                       THEN VFE_Start(e.self, e.os, SC_GetFrameWidth(c.w),
                                      SC_GetFrameHeight(c.w), framesPerSecond,
                                      env.start)
                       ELSE [self |-> e.self, os |-> e.os, ret |-> TRUE,
                             calls |-> <<>>]
                 log == c.calls \o (IF m.numFrames = 0 THEN <<"Start">>
                                    ELSE <<>>) \o st.calls
             IN  IF ~st.ret
                 THEN Main_Return(m, c.w,
                                  [e EXCEPT !.self = st.self, !.os = st.os],
                                  -1, env.add.finalizeOK, log)
                 ELSE LET a == VFE_AddFrame(st.self, st.os, CapPixels(c.w),
                                            TRUE, m.timestamp, env.add)
                          e1 == EncAdded(e, a, TRUE, m.timestamp)
                          log1 == log \o <<"AddFrame">> \o a.calls
                      IN  IF ~a.ret
                          THEN Main_Return(m, c.w, e1, -1,
                                           env.add.finalizeOK, log1)
                          ELSE [m |-> [m EXCEPT
                                         !.numFrames = @ + 1,
                                         !.timestamp =
                                             @ + VFE_GetFrameDuration(a.self),
                                         !.iframe = @ + 1],
                                w |-> c.w, e |-> e1, calls |-> log1]

\* One pass through the body of the for loop.
\* env: [cap: the environment of ScreenCapture::CaptureFrame,
\*       start: that of VideoFileEncoder::Start,
\*       add: that of AddFrame, and of the Finalize of a return]
Main_Iteration(m, w, e, env) ==
    LET c == SC_CaptureFrame(w, env.cap)
    IN  IF ~c.ret \/ SC_GetFrameWidth(c.w) < 1
        THEN [m |-> [m EXCEPT !.iframe = @ + 1],
              w |-> c.w, e |-> e, calls |-> c.calls]
        ELSE LET st == IF m.numFrames = 0
                       THEN VFE_Start(e.self, e.os, SC_GetFrameWidth(c.w),
                                      SC_GetFrameHeight(c.w), framesPerSecond,
                                      env.start)
                       ELSE [self |-> e.self, os |-> e.os, ret |-> TRUE,
                             calls |-> <<>>]
                 log == c.calls \o (IF m.numFrames = 0 THEN <<"Start">>
                                    ELSE <<>>) \o st.calls
             IN  IF ~st.ret
                 THEN Main_Return(m, c.w,
                                  [e EXCEPT !.self = st.self, !.os = st.os],
                                  -1, env.add.finalizeOK, log)
                 ELSE LET a == VFE_AddFrame(st.self, st.os, CapPixels(c.w),
                                            TRUE, m.timestamp, env.add)
                          e1 == EncAdded(e, a, TRUE, m.timestamp)
                          log1 == log \o <<"AddFrame">> \o a.calls
                      IN  IF ~a.ret
                          THEN Main_Return(m, c.w, e1, -1,
                                           env.add.finalizeOK, log1)
                          ELSE [m |-> [m EXCEPT
                                         !.numFrames = @ + 1,
                                         !.timestamp =
                                             @ + VFE_GetFrameDuration(a.self),
                                         !.iframe = @ + 1],
                                w |-> c.w, e |-> e1, calls |-> log1]

\* main() behind the for loop.
Main_Finish(m, w, e, finalizeOK) ==
    LET sh == SC_Shutdown(w)
        st == VFE_Stop(e.self, e.os, finalizeOK)
    IN  Main_Return(m, sh.w, [e EXCEPT !.self = st.self, !.os = st.os],
                    IF st.ret THEN 0 ELSE -1, finalizeOK,
                    sh.calls \o <<"Stop">> \o st.calls)

(***************************************************************************)
(* captest: BmpWrite.  Addresses are byte offsets from pBits; the caller's  *)
(* buffer is the stride*height bytes from offset 0 on.  The sizes of the   *)
(* model are far below the 32 bits of the C++ unsigned.                     *)
(***************************************************************************)
\* arg: the arguments of the last call (pathOK: szPath is a non-empty
\* string, bitsOK: pBits is not null); accepted: the argument check let them
\* pass; reads: offset and length of the bytes each fwrite of a scanline was
\* handed, in the order of the calls.
Bmp_New ==
    [arg |-> [pathOK |-> FALSE, width |-> 0, height |-> 0, stride |-> 0,
              bitsPerPixel |-> 0, bitsOK |-> FALSE],
     accepted |-> FALSE, reads |-> <<>>]

\* "Check for bogus arguments."
BogusArguments(a) ==
    \/ ~a.pathOK
    \/ a.width < 1
    \/ a.height < 1
    \/ a.stride < a.width * 3
    \/ (a.bitsPerPixel # 24 /\ a.bitsPerPixel # 32)
    \/ ~a.bitsOK

\* unsigned outStride = width * bitsPerPixel / 8; while (outStride % 4)
\* outStride++;
OutStride(width, bitsPerPixel) == RoundUp4((width * bitsPerPixel) \div 8)

\* "Write the bitmap bits one scanline at a time": scanline is the offset of
\* the scanline written next, failAt the fwrite call (the two headers are
\* calls 1 and 2) that fails, 0 when none does.
RECURSIVE WriteScanlines(_, _, _, _, _, _, _, _)
WriteScanlines(scanline, y, height, stride, outStride, failAt, reads, log) ==
    IF y >= height
    THEN [ret |-> TRUE, reads |-> reads, calls |-> Append(log, "fclose")]
    ELSE LET reads1 == Append(reads, [off |-> scanline, len |-> outStride])
             log1 == Append(log, "fwrite")
         IN  IF failAt = y + 3
             THEN [ret |-> FALSE, reads |-> reads1,
                   calls |-> log1 \o <<"fclose", "_unlink">>]
             ELSE WriteScanlines(scanline - stride, y + 1, height, stride,
                                 outStride, failAt, reads1, log1)

\* env: [openOK: fopen_s opens the file, failAt]
BmpWrite(a, env) ==
    IF BogusArguments(a)
    THEN [ret |-> FALSE, accepted |-> FALSE, reads |-> <<>>, calls |-> <<>>]
    ELSE IF ~env.openOK
    THEN [ret |-> FALSE, accepted |-> TRUE, reads |-> <<>>,
          calls |-> <<"fopen_s">>]
    ELSE IF env.failAt = 1
    THEN [ret |-> FALSE, accepted |-> TRUE, reads |-> <<>>,
          calls |-> <<"fopen_s", "fwrite", "fclose", "_unlink">>]
    ELSE IF env.failAt = 2
    THEN [ret |-> FALSE, accepted |-> TRUE, reads |-> <<>>,
          calls |-> <<"fopen_s", "fwrite", "fwrite", "fclose", "_unlink">>]
    ELSE LET w == WriteScanlines(a.stride * (a.height - 1), 0, a.height,
                                 a.stride,
                                 OutStride(a.width, a.bitsPerPixel),
                                 env.failAt, <<>>,
                                 <<"fopen_s", "fwrite", "fwrite">>)
         IN  [ret |-> w.ret, accepted |-> TRUE, reads |-> w.reads,
              calls |-> w.calls]

(***************************************************************************)
(* The environment's answers, one set per operation.  Answers the code     *)
(* never gets to look at are not varied.                                   *)
(***************************************************************************)
\* One monitor: the virtual screen is the primary screen.  Several: the
\* virtual screen is their bounding rectangle.
GDIStartEnvs ==
    {e \in [monitors : {1, 2}, prim : Screens, virt : Screens,
            dcOK : BOOLEAN, dibOK : BOOLEAN] :
        /\ e.monitors = 1 => e.virt = e.prim
        /\ e.monitors > 1 => e.prim = <<1, 1>>
        /\ ~e.dcOK => e.dibOK}
GDICapEnvs == [frame : Frames]

Formats == {DXGI_FORMAT_B8G8R8A8_UNORM, DXGI_FORMAT_B8G8R8X8_UNORM_SRGB,
            DXGI_FORMAT_R10G10B10A2_UNORM}
DXModes == {<<1, 1>>, <<MaxW, MaxH>>}
\* Which driver types D3D11CreateDevice succeeds for: none, one, or all.
DevAnswers ==
    {[i \in 1..3 |-> FALSE], [i \in 1..3 |-> TRUE]}
        \cup {[i \in 1..3 |-> i = k] : k \in 1..3}
DXStartEnvs ==
    {e \in [devs : DevAnswers, failStep : 0..NegotiationSteps,
            format : Formats, mode : DXModes] :
        /\ (\A i \in 1..3 : ~e.devs[i]) => e.failStep = 0
        /\ e.failStep # 0 =>
              e.format = DXGI_FORMAT_B8G8R8A8_UNORM /\ e.mode = <<1, 1>>}

RetryAnswers == {"ZeroMarker", "NoSurface"}
FinalAnswers == {"Timeout", "Error", "Full"}
\* n "not ready" answers, of kinds ab[1] and ab[2] in turn, and then a final
\* answer.
Retries(n, ab) == [i \in 1..n |-> IF i % 2 = 1 THEN ab[1] ELSE ab[2]]
RetryKinds == {<<"ZeroMarker", "NoSurface">>, <<"NoSurface", "ZeroMarker">>}
Scripts ==
    {Retries(n, ab) \o <<f>> :
        n \in 0..MaxRetries, ab \in RetryKinds, f \in FinalAnswers}
RowPads == {0, 4}
DXCapEnvs ==
    {e \in [script : Scripts, qiOK : BOOLEAN, stagingOK : BOOLEAN,
            mapOK : BOOLEAN, pad : RowPads, frame : Frames] :
        /\ e.script[Len(e.script)] # "Full" => e.qiOK
        /\ ~e.qiOK => e.stagingOK /\ e.mapOK
        /\ ~e.stagingOK => e.mapOK
        /\ ~(e.script[Len(e.script)] = "Full" /\ e.qiOK /\ e.stagingOK /\ e.mapOK)
              => e.pad = 0 /\ e.frame = 1}

EnvRest(e) == e.qiOK /\ e.stagingOK /\ e.mapOK
\* D3D11CreateDevice succeeds for one of the driver types tried.
DeviceOK(devs) == \E i \in DOMAIN devs : devs[i]

\* The first attempt (1-based) at which the script offers a complete frame,
\* 0 when it offers none.
FirstFull(script) ==
    IF script[Len(script)] = "Full" THEN Len(script) ELSE 0

(***************************************************************************)
(* History.  started: the last Startup returned true and no Shutdown ran   *)
(* since; last: the outcome of the last CaptureFrame call on the instance; *)
(* frame: the metadata of the frame the last successful capture since      *)
(* Startup delivered, as the environment produced it; since: some Startup  *)
(* of the instance returned true and no Shutdown ran since.                *)
(***************************************************************************)
Hist_New ==
    [started |-> FALSE, last |-> "none", frame |-> ZeroMeta, since |-> FALSE]

Outcome(r) == IF r THEN "ok" ELSE "fail"

\* The size and layout GDI gives a 32-bit DIB section.
DIBMeta(os) ==
    Meta(os.dibWidth, os.dibHeight, BitsPerPixel,
         ((os.dibWidth * BitsPerPixel + 31) \div 32) * 4)
\* The size and layout of the mapped staging texture.
DXRowPitch(drv, pad) == drv.width * (BitsPerPixel \div 8) + pad
DXMeta(drv, pad) ==
    Meta(drv.width, drv.height, BitsPerPixel, DXRowPitch(drv, pad))

\* fresh: the call constructed the instance; gone: it destroyed it.
HistStartup(h, r, fresh) ==
    [started |-> r, last |-> IF fresh THEN "none" ELSE h.last,
     frame |-> ZeroMeta, since |-> IF fresh THEN r ELSE (h.since \/ r)]
HistShutdown(h, gone) ==
    [started |-> FALSE, last |-> IF gone THEN "none" ELSE h.last,
     frame |-> ZeroMeta, since |-> FALSE]
HistCapture(h, r, meta) ==
    [started |-> h.started, last |-> Outcome(r),
     frame |-> IF r THEN meta ELSE h.frame, since |-> h.since]

\* name: the method; mode: Startup's argument; full: the attempt at which the
\* driver offers a complete frame during a duplication capture (0: never);
\* rest: the texture query, the staging texture and the map all succeed.
\* For a Startup of the duplication backend, full: the negotiation step that
\* fails (0: none); rest: D3D11CreateDevice succeeds for some driver type.
\* fail: the acquire (1-based) of a duplication capture that the driver fails
\* if the call gets to make it (0: none).  dev: for a Startup of the
\* duplication backend, the first driver type (1-based, in the order of
\* drivers[]) D3D11CreateDevice succeeds for (0: none).
Op(name, mode, full, rest) ==
    [name |-> name, mode |-> mode, full |-> full, rest |-> rest, fail |-> 0,
     dev |-> 0]

\* The first driver type D3D11CreateDevice succeeds for, 0 when for none.
FirstDevice(devs) ==
    IF DeviceOK(devs) THEN CHOOSE i \in DOMAIN devs :
                              devs[i] /\ \A j \in 1..(i - 1) : ~devs[j]
    ELSE 0
OpStartup(mode, env) ==
    [Op("Startup", mode, env.failStep, DeviceOK(env.devs))
        EXCEPT !.dev = FirstDevice(env.devs)]

\* The driver fails an acquire made while a frame is held, and otherwise the
\* one its script ends with unless that one gives a frame.
FirstFail(held, script) ==
    IF held THEN 1
    ELSE IF script[Len(script)] = "Full" THEN 0 ELSE Len(script)
OpCapture(full, rest, fail) ==
    [Op("CaptureFrame", 0, full, rest) EXCEPT !.fail = fail]

(***************************************************************************)
(* The state machine.                                                      *)
(***************************************************************************)
Fresh ==
    /\ m_mode = ScreenCaptureMode_Invalid
    /\ m_capgdi = NULL
    /\ m_capdx11 = NULL
    /\ leaked = 0
    /\ gdi = GDI_New
    /\ dx = DX_New
    /\ gdios = GDIOS_New
    /\ dxgi = DXGI_New
    /\ op = Op("Init", 0, 0, TRUE)
    /\ ret = TRUE
    /\ calls = <<>>
    /\ hist = Hist_New
    /\ enc = Enc_New
    /\ main = Main_New
    /\ bmp = Bmp_New

Init ==
    /\ user \in {"facade", "gdi", "dx11"}
    /\ Fresh

SetWorld(w) ==
    /\ m_mode' = w.m_mode
    /\ m_capgdi' = w.m_capgdi
    /\ m_capdx11' = w.m_capdx11
    /\ leaked' = w.leaked
    /\ gdi' = w.gdi
    /\ dx' = w.dx
    /\ gdios' = w.gdios
    /\ dxgi' = w.dxgi

\* The native objects and leaked instances a client may pile up are bounded:
\* a call is explored when it leaves at most MaxLive of each kind.
Room(leak, os, drv) ==
    /\ leak <= MaxLive
    /\ os.memDCs <= MaxLive /\ os.dibs <= MaxLive
    /\ drv.devices <= MaxLive /\ drv.dups <= MaxLive

\* The same with room for the device and device context of one more Startup
\* on an instance that already holds some.
RoomRestart(leak, os, drv) ==
    /\ leak <= MaxLive
    /\ os.memDCs <= MaxLive /\ os.dibs <= MaxLive
    /\ drv.devices <= MaxLive + 1 /\ drv.dups <= MaxLive

\* ScreenCapture::Startup(mode)
FacadeStartup ==
    /\ user = "facade"
    /\ \E mode \in Modes :
       \E eg \in (IF mode = ScreenCaptureMode_GDI THEN GDIStartEnvs
                  ELSE {CHOOSE e \in GDIStartEnvs : TRUE}) :
       \E ed \in (IF mode = ScreenCaptureMode_DX11 THEN DXStartEnvs
                  ELSE {CHOOSE e \in DXStartEnvs : TRUE}) :
         \E r \in {SC_Startup(World, mode, [gdi |-> eg, dx |-> ed])} :
             /\ Room(r.w.leaked, r.w.gdios, r.w.dxgi)
             /\ SetWorld(r.w)
             /\ ret' = r.ret
             /\ calls' = r.calls
             /\ op' = IF mode = ScreenCaptureMode_DX11
                      THEN OpStartup(mode, ed)
                      ELSE Op("Startup", mode, 0, TRUE)
             /\ hist' = HistStartup(hist, r.ret, TRUE)
    /\ UNCHANGED <<user, enc, main, bmp>>

\* ScreenCapture::Shutdown()
FacadeShutdown ==
    /\ user = "facade"
    /\ \E r \in {SC_Shutdown(World)} :
           /\ SetWorld(r.w)
           /\ ret' = r.ret
           /\ calls' = r.calls
           /\ op' = Op("Shutdown", 0, 0, TRUE)
           /\ hist' = HistShutdown(hist, TRUE)
    /\ UNCHANGED <<user, enc, main, bmp>>

\* ScreenCapture::CaptureFrame()
FacadeCaptureFrame ==
    /\ user = "facade"
    /\ \E eg \in (IF m_capgdi # NULL THEN GDICapEnvs
                  ELSE {CHOOSE e \in GDICapEnvs : TRUE}) :
       \E ed \in (IF m_capgdi = NULL /\ m_capdx11 # NULL
                     /\ dx.m_outputDuplication # NULL
                  THEN DXCapEnvs
                  ELSE {CHOOSE e \in DXCapEnvs : TRUE}) :
         LET r == SC_CaptureFrame(World, [gdi |-> eg, dx |-> ed])
             meta == IF m_capgdi # NULL THEN DIBMeta(gdios)
                     ELSE DXMeta(dxgi, ed.pad)
         IN  /\ SetWorld(r.w)
             /\ ret' = r.ret
             /\ calls' = r.calls
             /\ op' = OpCapture(
                         IF m_capgdi # NULL THEN 0 ELSE FirstFull(ed.script),
                         IF m_capgdi # NULL THEN TRUE ELSE EnvRest(ed),
                         IF m_capgdi # NULL THEN 0
                         ELSE FirstFail(dxgi.frameHeld, ed.script))
             /\ hist' = HistCapture(hist, r.ret, meta)
    /\ UNCHANGED <<user, enc, main, bmp>>

\* ScreenCaptureGDI::Startup()
GDIStartup ==
    /\ user = "gdi"
    /\ \E e \in GDIStartEnvs :
         \E r \in {GDI_Startup(gdi, gdios, e)} :
             /\ Room(leaked, r.os, dxgi)
             /\ gdi' = r.self
             /\ gdios' = r.os
             /\ ret' = r.ret
             /\ calls' = r.calls
             /\ op' = Op("Startup", 0, 0, TRUE)
             /\ hist' = HistStartup(hist, r.ret, FALSE)
    /\ UNCHANGED <<bmp, enc, main, user, m_mode, m_capgdi, m_capdx11, leaked, dx, dxgi>>

\* ScreenCaptureGDI::Shutdown()
GDIShutdown ==
    /\ user = "gdi"
    /\ \E r \in {GDI_Shutdown(gdi, gdios)} :
           /\ gdi' = r.self
           /\ gdios' = r.os
           /\ ret' = r.ret
           /\ calls' = r.calls
           /\ op' = Op("Shutdown", 0, 0, TRUE)
           /\ hist' = HistShutdown(hist, FALSE)
    /\ UNCHANGED <<bmp, enc, main, user, m_mode, m_capgdi, m_capdx11, leaked, dx, dxgi>>

\* ScreenCaptureGDI::CaptureFrame()
GDICaptureFrame ==
    /\ user = "gdi"
    /\ \E e \in GDICapEnvs :
         \E r \in {GDI_CaptureFrame(gdi, gdios, e)} :
             /\ gdi' = r.self
             /\ gdios' = r.os
             /\ ret' = r.ret
             /\ calls' = r.calls
             /\ op' = Op("CaptureFrame", 0, 0, TRUE)
             /\ hist' = HistCapture(hist, r.ret, DIBMeta(gdios))
    /\ UNCHANGED <<bmp, enc, main, user, m_mode, m_capgdi, m_capdx11, leaked, dx, dxgi>>

\* ScreenCaptureDX11::Startup(); again: the call may be one on an instance
\* that already holds a device.
DXStartupCall(again) ==
    /\ user = "dx11"
    /\ \E e \in DXStartEnvs :
         \E r \in {DX_Startup(dx, dxgi, e)} :
             /\ IF again THEN RoomRestart(leaked, gdios, r.os)
                         ELSE Room(leaked, gdios, r.os)
             /\ dx' = r.self
             /\ dxgi' = r.os
             /\ ret' = r.ret
             /\ calls' = r.calls
             /\ op' = OpStartup(0, e)
             /\ hist' = HistStartup(hist, r.ret, FALSE)
    /\ UNCHANGED <<bmp, enc, main, user, m_mode, m_capgdi, m_capdx11, leaked, gdi, gdios>>

DXStartup == DXStartupCall(FALSE)
DXRestart == DXStartupCall(TRUE)

\* ScreenCaptureDX11::Shutdown()
DXShutdown ==
    /\ user = "dx11"
    /\ \E r \in {DX_Shutdown(dx, dxgi)} :
           /\ dx' = r.self
           /\ dxgi' = r.os
           /\ ret' = r.ret
           /\ calls' = r.calls
           /\ op' = Op("Shutdown", 0, 0, TRUE)
           /\ hist' = HistShutdown(hist, FALSE)
    /\ UNCHANGED <<bmp, enc, main, user, m_mode, m_capgdi, m_capdx11, leaked, gdi, gdios>>

\* ScreenCaptureDX11::CaptureFrame()
DXCaptureFrame ==
    /\ user = "dx11"
    /\ \E e \in (IF dx.m_outputDuplication # NULL THEN DXCapEnvs
                 ELSE {CHOOSE e \in DXCapEnvs : TRUE}) :
         \E r \in {DX_CaptureFrame(dx, dxgi, e)} :
             /\ dx' = r.self
             /\ dxgi' = r.os
             /\ ret' = r.ret
             /\ calls' = r.calls
             /\ op' = OpCapture(FirstFull(e.script), EnvRest(e),
                                 FirstFail(dxgi.frameHeld, e.script))
             /\ hist' = HistCapture(hist, r.ret, DXMeta(dxgi, e.pad))
    /\ UNCHANGED <<bmp, enc, main, user, m_mode, m_capgdi, m_capdx11, leaked, gdi, gdios>>

(***************************************************************************)
(* A client of VideoFileEncoder, and capenctest.                            *)
(***************************************************************************)
capvars == <<m_mode, m_capgdi, m_capdx11, leaked, gdi, dx, gdios, dxgi>>

StartEnvs == [finalizeOK : BOOLEAN, sinkOK : BOOLEAN]
WriteEnvs ==
    {e \in [bufferOK : BOOLEAN, writeOK : BOOLEAN] : ~e.bufferOK => e.writeOK}
\* The scanlines of frame f from the top down, as the encoder expects them.
TopDown(f, height) == [r \in 1..height |-> <<f, r>>]
\* The buffers a client hands to an encoder set up for width x height: none,
\* or a frame of that size in either scanline order.
ClientPixels(width, height) ==
    {NoPixels}
        \cup {Pixels(TopDown(f, height), width * (BitsPerPixel \div 8)) :
                 f \in Frames}
        \cup {Pixels(BitBlt(1, height), width * (BitsPerPixel \div 8))}

\* The frame sizes a client asks for: none, the smallest, the largest.
ClientSizes == {<<0, MaxH>>, <<MaxW, 0>>, <<1, 1>>, <<MaxW, MaxH>>}

\* VideoFileEncoder::VideoFileEncoder(doMFStartup, doCoInitialize)
EncConstruct ==
    /\ user = "encoder"
    /\ ~enc.alive
    /\ \E doMFStartup \in BOOLEAN, doCoInitialize \in BOOLEAN :
         \E r \in {VFE_Construct(doMFStartup, doCoInitialize, enc.os)} :
             /\ r.os.co <= MaxEncoders /\ r.os.mf <= MaxEncoders
             /\ enc' = [Enc_New EXCEPT !.alive = TRUE, !.self = r.self,
                                       !.os = r.os]
             /\ ret' = r.ret
             /\ calls' = r.calls
             /\ op' = Op("VideoFileEncoder", 0, 0, TRUE)
    /\ UNCHANGED <<user, capvars, hist, main, bmp>>

\* VideoFileEncoder::~VideoFileEncoder()
EncDestroy ==
    /\ user = "encoder"
    /\ enc.alive
    /\ \E finalizeOK \in (IF enc.self.m_pSinkWriter # NULL THEN BOOLEAN
                          ELSE {TRUE}) :
         \E r \in {VFE_Destroy(enc.self, enc.os, finalizeOK)} :
             /\ enc' = [enc EXCEPT !.alive = FALSE, !.self = r.self,
                                   !.os = r.os]
             /\ ret' = r.ret
             /\ calls' = r.calls
             /\ op' = Op("~VideoFileEncoder", 0, 0, TRUE)
    /\ UNCHANGED <<user, capvars, hist, main, bmp>>

\* VideoFileEncoder::Start(filename, width, height, fps)
EncStart ==
    /\ user = "encoder"
    /\ enc.alive
    /\ \E size \in ClientSizes, fps \in {0, framesPerSecond} :
       \E env \in {e \in StartEnvs :
                      enc.self.m_pSinkWriter = NULL => e.finalizeOK} :
         \E r \in {VFE_Start(enc.self, enc.os, size[1], size[2], fps, env)} :
             /\ enc' = [enc EXCEPT !.self = r.self, !.os = r.os]
             /\ ret' = r.ret
             /\ calls' = r.calls
             /\ op' = Op("Start", 0, 0, TRUE)
    /\ UNCHANGED <<user, capvars, hist, main, bmp>>

\* VideoFileEncoder::Stop()
EncStop ==
    /\ user = "encoder"
    /\ enc.alive
    /\ \E finalizeOK \in (IF enc.self.m_pSinkWriter # NULL THEN BOOLEAN
                          ELSE {TRUE}) :
         \E r \in {VFE_Stop(enc.self, enc.os, finalizeOK)} :
             /\ enc' = [enc EXCEPT !.self = r.self, !.os = r.os]
             /\ ret' = r.ret
             /\ calls' = r.calls
             /\ op' = Op("Stop", 0, 0, TRUE)
    /\ UNCHANGED <<user, capvars, hist, main, bmp>>

\* VideoFileEncoder::AddFrame(pixels, flipY, timestamp)
EncAddFrame ==
    /\ user = "encoder"
    /\ enc.alive
    /\ \E pixels \in ClientPixels(enc.self.m_width, enc.self.m_height),
          flipY \in BOOLEAN,
          timestamp \in {0, VFE_GetFrameDuration(enc.self)},
          env \in WriteEnvs :
         \E r \in {VFE_AddFrame(enc.self, enc.os, pixels, flipY, timestamp,
                                env)} :
             /\ enc' = EncAdded(enc, r, flipY, timestamp)
             /\ ret' = r.ret
             /\ calls' = r.calls
             /\ op' = Op("AddFrame", 0, 0, TRUE)
    /\ UNCHANGED <<user, capvars, hist, main, bmp>>

\* capenctest needs no long retry scripts from the driver.
MainDXCapEnvs == {e \in DXCapEnvs : Len(e.script) <= 2}
MainAddEnvs ==
    {e \in [bufferOK : BOOLEAN, writeOK : BOOLEAN, finalizeOK : BOOLEAN] :
        /\ ~e.bufferOK => e.writeOK
        /\ (e.bufferOK /\ e.writeOK) => e.finalizeOK}

SetMain(r) ==
    /\ SetWorld(r.w)
    /\ main' = r.m
    /\ enc' = r.e
    /\ calls' = r.calls
    /\ ret' = (r.m.pc # "exit" \/ r.m.exit = 0)
    /\ op' = Op("main", 0, 0, TRUE)

\* capenctest <arg>, up to the for loop
MainBegin ==
    /\ user = "capenctest"
    /\ main.pc = "start"
    /\ \E arg \in {"", "GDI", "DX11", "other"} :
       \E eg \in (IF arg = "GDI" THEN GDIStartEnvs
                  ELSE {CHOOSE e \in GDIStartEnvs : TRUE}) :
       \E ed \in (IF arg = "DX11" THEN DXStartEnvs
                  ELSE {CHOOSE e \in DXStartEnvs : TRUE}) :
         SetMain(Main_Begin(main, World, enc, arg, [gdi |-> eg, dx |-> ed]))
    /\ UNCHANGED <<user, hist, bmp>>

\* one pass through the for loop
MainIteration ==
    /\ user = "capenctest"
    /\ main.pc = "loop"
    /\ main.iframe < MaxIFrames
    /\ \E eg \in (IF m_capgdi # NULL THEN GDICapEnvs
                  ELSE {CHOOSE e \in GDICapEnvs : TRUE}) :
       \E ed \in (IF m_capgdi = NULL THEN MainDXCapEnvs
                  ELSE {CHOOSE e \in MainDXCapEnvs : TRUE}) :
       \E es \in (IF main.numFrames = 0 THEN {e \in StartEnvs : e.finalizeOK}
                  ELSE {CHOOSE e \in StartEnvs : e.finalizeOK}) :
       \E ea \in MainAddEnvs :
         SetMain(Main_Iteration(main, World, enc,
                                [cap |-> [gdi |-> eg, dx |-> ed],
                                 start |-> es, add |-> ea]))
    /\ UNCHANGED <<user, hist, bmp>>

\* the for loop is over: the rest of main
MainFinish ==
    /\ user = "capenctest"
    /\ main.pc = "loop"
    /\ main.iframe >= MaxIFrames
    /\ \E finalizeOK \in (IF enc.self.m_pSinkWriter # NULL THEN BOOLEAN
                          ELSE {TRUE}) :
         SetMain(Main_Finish(main, World, enc, finalizeOK))
    /\ UNCHANGED <<user, hist, bmp>>

(***************************************************************************)
(* A caller of BmpWrite.                                                   *)
(***************************************************************************)
\* The arguments a caller passes: any size and stride within the bounds, a
\* depth of 16, 24 or 32 bits.
BmpArgs ==
    [pathOK : BOOLEAN, width : 0..MaxBmpW, height : 0..MaxBmpH,
     stride : 0..MaxBmpStride, bitsPerPixel : {16, 24, 32}, bitsOK : BOOLEAN]
BmpEnvs(a) ==
    {e \in [openOK : BOOLEAN, failAt : 0..(a.height + 2)] :
        /\ BogusArguments(a) => (e.openOK /\ e.failAt = 0)
        /\ ~e.openOK => e.failAt = 0}

\* BmpWrite(szPath, width, height, stride, bitsPerPixel, pBits)
BmpWriteCall ==
    /\ user = "captest"
    /\ \E a \in BmpArgs :
       \E env \in BmpEnvs(a) :
         \E r \in {BmpWrite(a, env)} :
             /\ bmp' = [arg |-> a, accepted |-> r.accepted,
                        reads |-> r.reads]
             /\ ret' = r.ret
             /\ calls' = r.calls
             /\ op' = Op("BmpWrite", 0, 0, TRUE)
    /\ UNCHANGED <<user, capvars, hist, enc, main>>

Next ==
    \/ FacadeStartup
    \/ FacadeShutdown
    \/ FacadeCaptureFrame
    \/ GDIStartup
    \/ GDIShutdown
    \/ GDICaptureFrame
    \/ DXStartup
    \/ DXShutdown
    \/ DXCaptureFrame

Spec == Init /\ [][Next]_vars

\* The same client, which may also call Startup on a duplication backend
\* that already holds a device.
NextRestart ==
    \/ Next
    \/ DXRestart

SpecRestart == Init /\ [][NextRestart]_vars

\* A client of VideoFileEncoder, or the program capenctest.
InitEncode ==
    /\ user \in {"encoder", "capenctest"}
    /\ Fresh

NextEncode ==
    \/ EncConstruct
    \/ EncDestroy
    \/ EncStart
    \/ EncStop
    \/ EncAddFrame
    \/ MainBegin
    \/ MainIteration
    \/ MainFinish

SpecEncode == InitEncode /\ [][NextEncode]_vars

\* The behaviours of a program that calls BmpWrite.
InitBmp ==
    /\ user = "captest"
    /\ Fresh

NextBmp == BmpWriteCall

SpecBmp == InitBmp /\ [][NextBmp]_vars

(***************************************************************************)
(* What the claims speak about.                                            *)
(***************************************************************************)
Has(seq, x) == \E i \in DOMAIN seq : seq[i] = x
Count(seq, x) == Cardinality({i \in DOMAIN seq : seq[i] = x})

\* The backend instance the client's calls reach.
GDIInUse == user = "gdi" \/ (user = "facade" /\ m_capgdi # NULL)
DXInUse == user = "dx11" \/ (user = "facade" /\ m_capdx11 # NULL)
Installed ==
    (IF m_capgdi # NULL THEN 1 ELSE 0) + (IF m_capdx11 # NULL THEN 1 ELSE 0)

\* Width, Height, BitDepth and Stride as the client reads them.
GDIMetaOf(self) ==
    Meta(GDI_GetFrameWidth(self), GDI_GetFrameHeight(self),
         GDI_GetFrameDepth(self), GDI_GetFrameStride(self))
DXMetaOf(self) ==
    Meta(DX_GetFrameWidth(self), DX_GetFrameHeight(self),
         DX_GetFrameDepth(self), DX_GetFrameStride(self))
SCMetaOf(w) ==
    Meta(SC_GetFrameWidth(w), SC_GetFrameHeight(w),
         SC_GetFrameDepth(w), SC_GetFrameStride(w))
CurMeta ==
    IF user = "gdi" THEN GDIMetaOf(gdi)
    ELSE IF user = "dx11" THEN DXMetaOf(dx)
    ELSE SCMetaOf(World)

(***************************************************************************)
(* Claims.                                                                 *)
(***************************************************************************)

\* C1: in every state reachable by Startup(mode), CaptureFrame and Shutdown
\* calls on a ScreenCapture, the two backend pointers are never both non-null.
C1_AtMostOneBackend == ~(m_capgdi # NULL /\ m_capdx11 # NULL)

\* C1 witness: Startup(DX11) ran on a session that had the GDI backend
\* installed (it deleted it) and installed the DX11 backend.
C1_Witness ==
    /\ user = "facade"
    /\ op.name = "Startup" /\ op.mode = ScreenCaptureMode_DX11
    /\ Has(calls, "delete(GDI)")
    /\ m_capdx11 # NULL

\* C2: whenever ScreenCapture::Startup(mode) returns false, no backend
\* instance is installed and GetCaptureMode() is ScreenCaptureMode_Invalid.
C2_FailedStartupSelectsNothing ==
    (user = "facade" /\ op.name = "Startup" /\ ~ret) =>
        /\ m_capgdi = NULL
        /\ m_capdx11 = NULL
        /\ SC_GetCaptureMode(World) = ScreenCaptureMode_Invalid

\* C3: through the facade no backend instance is leaked: no pointer to a live
\* instance is overwritten, at most one instance is alive, the native objects
\* alive are those of the installed instance only, and within a Startup every
\* delete comes before the new.
C3_NoBackendLeak ==
    user = "facade" =>
        /\ leaked = 0
        /\ Installed <= 1
        /\ gdios.memDCs <= (IF m_capgdi # NULL THEN 1 ELSE 0)
        /\ gdios.dibs <= (IF m_capgdi # NULL THEN 1 ELSE 0)
        /\ dxgi.devices <= (IF m_capdx11 # NULL THEN 1 ELSE 0)
        /\ dxgi.contexts <= (IF m_capdx11 # NULL THEN 1 ELSE 0)
        /\ dxgi.dups <= (IF m_capdx11 # NULL THEN 1 ELSE 0)
        /\ \A i, j \in DOMAIN calls :
              (calls[i] \in {"new(GDI)", "new(DX11)"}
               /\ calls[j] \in {"delete(GDI)", "delete(DX11)"}) => j < i

\* C3 witness: a Startup that found a backend of the same kind installed,
\* deleted it and constructed the next one.
C3_Witness ==
    /\ user = "facade"
    /\ op.name = "Startup"
    /\ Has(calls, "delete(GDI)") /\ Has(calls, "new(GDI)")
    /\ m_capgdi # NULL

\* C4: on a ScreenCapture for which no Startup has returned true since
\* construction or the last Shutdown, CaptureFrame returns false, the four
\* metadata accessors return 0 and GetFrameBuffer returns null.
C4_ZeroDefaultsWhenNotStarted ==
    (user = "facade" /\ ~hist.started) =>
        /\ (op.name = "CaptureFrame" => ~ret)
        /\ SCMetaOf(World) = ZeroMeta
        /\ SC_GetFrameBuffer(World) = NULL

\* C5 (as claimed): after a Startup that returned true the metadata is all 0
\* until a CaptureFrame returns true, and from then on it is the metadata of
\* the last CaptureFrame that returned true.
C5_MetadataOfLastSuccess == hist.started => CurMeta = hist.frame

\* C5 (amended): after a Startup that returned true, the duplication backend
\* reports the metadata of the frame of the last CaptureFrame if that call
\* returned true and all 0 otherwise (before the first call, and after a call
\* that returned false); the blit backend reports the screen's size, 32 and
\* the surface's stride from Startup on, which is the metadata of every frame
\* it captures.
C5_MetadataAmended ==
    hist.started =>
        IF GDIInUse
        THEN /\ CurMeta = DIBMeta(gdios)
             /\ hist.frame # ZeroMeta => CurMeta = hist.frame
        ELSE CurMeta = IF op.name = "CaptureFrame" /\ ret THEN hist.frame
                       ELSE ZeroMeta

\* C5 witness: a duplication capture returned false after an earlier one of
\* the session had returned true.
C5_Witness ==
    /\ DXInUse /\ hist.started
    /\ op.name = "CaptureFrame" /\ ~ret
    /\ hist.frame # ZeroMeta

\* C6: between operations the frame buffer and its metadata agree on either
\* backend: Width()>0 exactly when PixelData() refers to a live, owned buffer
\* of Stride()*Height() bytes; never a dangling or retained buffer with zero
\* dimensions, never non-zero dimensions without a buffer.
C6_BufferAndMetadataAgree ==
    /\ GDIInUse =>
          /\ GDI_GetFrameWidth(gdi) > 0 <=>
                (GDI_GetFrameBuffer(gdi) # NULL /\ gdios.bitsLive
                 /\ Len(gdios.pixels) = GDI_GetFrameHeight(gdi))
          /\ GDI_GetFrameBuffer(gdi) # NULL => gdios.bitsLive
    /\ DXInUse =>
          /\ DX_GetFrameWidth(dx) > 0 <=>
                (dx.m_frameBuffer # <<>>
                 /\ Len(dx.m_frameBuffer)
                      = DX_GetFrameStride(dx) * DX_GetFrameHeight(dx))
          /\ DX_GetFrameWidth(dx) = 0 => dx.m_frameBuffer = <<>>

\* C7: on every return from ScreenCaptureDX11::CaptureFrame the duplication
\* session holds no acquired frame.
C7_NoFrameHeldOnReturn ==
    (DXInUse /\ op.name = "CaptureFrame") => ~dxgi.frameHeld

\* C8: every ScreenCaptureDX11::CaptureFrame call returns after at most 4
\* driver acquire attempts, whatever the driver answers.
C8_AtMostFourAcquires ==
    (DXInUse /\ op.name = "CaptureFrame") =>
        Count(calls, "AcquireNextFrame") <= 4

\* C8 witness: a call in which the driver answered "not ready" every time: it
\* asked 4 times, released 4 times and returned false.
C8_Witness ==
    /\ DXInUse /\ op.name = "CaptureFrame" /\ ~ret
    /\ op.full = 0
    /\ Count(calls, "AcquireNextFrame") = 4
    /\ Count(calls, "ReleaseFrame") = 4

\* C9: once ScreenCaptureDX11::CaptureFrame has returned false, Width, Height,
\* BitDepth and Stride are all 0 until a later CaptureFrame returns true.
C9_FailedCaptureZeroesMetadata ==
    (DXInUse /\ hist.last = "fail") => DXMetaOf(dx) = ZeroMeta

\* C9 witness: the capture that returned false followed one that had
\* returned true and left a frame.
C9_Witness ==
    /\ DXInUse /\ hist.last = "fail"
    /\ op.name = "CaptureFrame"
    /\ hist.frame # ZeroMeta
    /\ dx.m_frameBuffer # <<>>

\* C10: after a CaptureFrame call on a started session returns false the
\* backend still holds its device, device context and duplication session
\* unchanged, no acquired frame is outstanding, and the next CaptureFrame
\* returns true if the driver then delivers a complete frame.
C10_Step ==
    /\ (DXInUse /\ hist.started /\ op'.name = "CaptureFrame" /\ ~ret') =>
          /\ dx'.m_device = dx.m_device /\ dx'.m_device # NULL
          /\ dx'.m_deviceContext = dx.m_deviceContext
          /\ dx'.m_deviceContext # NULL
          /\ dx'.m_outputDuplication = dx.m_outputDuplication
          /\ dx'.m_outputDuplication # NULL
          /\ ~dxgi'.frameHeld
    /\ (DXInUse /\ hist.started /\ op.name = "CaptureFrame" /\ ~ret
        /\ IsFormat32bit(dxgi.format)
        /\ op'.name = "CaptureFrame" /\ op'.full = 1 /\ op'.rest) => ret'
C10_FailedCaptureLeavesSessionUsable == [][C10_Step]_vars

\* A CaptureFrame step on a started duplication session whose format is
\* supported, and whether the driver delivers a complete frame (changed, fully
\* composited, with a surface) to one of the acquires of that call.
C11_CaptureStep ==
    /\ DXInUse /\ hist.started /\ IsFormat32bit(dxgi.format)
    /\ op'.name = "CaptureFrame"
C11_Delivered == ~dxgi.frameHeld /\ op'.full \in 1..4

\* C11 (as claimed): on a started duplication session with a supported format
\* every CaptureFrame call during which the screen did not change returns
\* false, and a call returns true exactly when the driver delivers a complete
\* frame during that call.
C11_TrueExactlyWhenDelivered ==
    [][C11_CaptureStep =>
          /\ op'.full = 0 => ~ret'
          /\ ret' <=> C11_Delivered]_vars

\* C11 (amended): every such call during which the screen did not change
\* returns false, and a call returns true exactly when the driver delivers a
\* complete frame to one of its at most 4 acquires and the texture query, the
\* staging texture and the map of that call all succeed.
C11_TrueExactlyWhenDeliveredAndCopied ==
    [][C11_CaptureStep =>
          /\ op'.full = 0 => ~ret'
          /\ ret' <=> (C11_Delivered /\ op'.rest)]_vars

\* C11 witness: the driver delivered a complete frame at the second attempt
\* and the call returned false because a later step of it failed.
C11_Witness ==
    /\ DXInUse /\ hist.started /\ IsFormat32bit(dxgi.format)
    /\ op.name = "CaptureFrame" /\ op.full = 2 /\ ~op.rest
    /\ Has(calls, "CreateTexture2D")
    /\ ~ret

C13_BlitMetadata ==
    (GDIInUse /\ hist.started /\ op.name = "CaptureFrame" /\ ret) =>
        LET W == gdios.virtWidth
            H == gdios.virtHeight
            stride == GDI_GetFrameStride(gdi)
        IN  /\ GDI_GetFrameWidth(gdi) = W
            /\ GDI_GetFrameHeight(gdi) = H
            /\ GDI_GetFrameDepth(gdi) = 32
            /\ stride % 4 = 0 /\ stride >= W * 4 /\ stride - 4 < W * 4
            /\ GDI_GetFrameBuffer(gdi) # NULL /\ gdios.bitsLive
            /\ Len(gdios.pixels) * DIBMeta(gdios).stride = stride * H

\* C13 witness: the first capture of a session started on a display 2 pixels
\* wide and 3 pixels high.
C13_Witness ==
    /\ GDIInUse /\ hist.started /\ op.name = "CaptureFrame" /\ ret
    /\ gdios.blits = "once"
    /\ gdios.virtWidth = 2 /\ gdios.virtHeight = 3
    /\ GDI_GetFrameStride(gdi) = 8

\* Width()>0, Height()>0 and Stride() >= Width()*BitDepth()/8, as the client
\* reads them.
C14_Sane(m) ==
    /\ m.width > 0
    /\ m.height > 0
    /\ m.stride >= (m.width * m.depth) \div 8

\* C14 (as claimed): for both backends, in every state after a successful
\* Startup in which at least one CaptureFrame has returned true, and until
\* Shutdown, the metadata is sane, also after later CaptureFrame calls that
\* returned false.
C14_SaneOnceCaptured ==
    (hist.started /\ hist.frame # ZeroMeta) => C14_Sane(CurMeta)

\* C14 (amended): for both backends, in every state after a successful
\* Startup in which at least one CaptureFrame has returned true and the last
\* CaptureFrame call returned true, the metadata is sane.
C14_SaneAfterSuccess ==
    (hist.started /\ hist.frame # ZeroMeta /\ hist.last = "ok") =>
        C14_Sane(CurMeta)

\* C14 witness: a duplication capture returned true and delivered rows of 2
\* pixels that take more bytes than the pixels do.
C14_Witness ==
    /\ DXInUse /\ hist.started /\ hist.frame # ZeroMeta
    /\ op.name = "CaptureFrame" /\ ret
    /\ DX_GetFrameStride(dx) > (DX_GetFrameWidth(dx) * DX_GetFrameDepth(dx)) \div 8
    /\ dxgi.width = 2

\* C15: a Shutdown call made right after a Shutdown, or before any Startup,
\* on either backend or on the facade, releases no native handle, deletes no
\* backend and leaves every state variable unchanged.
C15_ShutdownIdempotent ==
    [][(op.name \in {"Init", "Shutdown"} /\ op'.name = "Shutdown") =>
          /\ calls' = <<>>
          /\ UNCHANGED <<m_mode, m_capgdi, m_capdx11, leaked,
                         gdi, dx, gdios, dxgi>>]_vars

\* C15 witness: a duplication backend that had captured a frame was shut down
\* and then shut down again: the second call found every handle null and
\* made no release.
C15_Witness ==
    /\ user = "dx11"
    /\ op.name = "Shutdown" /\ calls = <<>>
    /\ dx.m_device = NULL /\ dx.m_outputDuplication = NULL
    /\ DX_GetFrameWidth(dx) > 0
    /\ dxgi.devices = 0 /\ dxgi.dups = 0

\* C16: after Shutdown returns on either backend, whatever Startup and
\* CaptureFrame calls came before, the backend looks like a newly constructed
\* instance: every handle is null, Width, Height, BitDepth and Stride return
\* 0 and the pixel-data accessor returns no buffer.
C16_ShutdownRestoresFresh ==
    /\ (user = "gdi" /\ op.name = "Shutdown") =>
          /\ gdi.m_hdcMem = NULL /\ gdi.m_dibSection = NULL
          /\ gdi.m_dibOld = NULL
          /\ GDIMetaOf(gdi) = ZeroMeta
          /\ GDI_GetFrameBuffer(gdi) = NULL
    /\ (user = "dx11" /\ op.name = "Shutdown") =>
          /\ dx.m_device = NULL /\ dx.m_deviceContext = NULL
          /\ dx.m_outputDuplication = NULL /\ dx.m_stagingTexture = NULL
          /\ DXMetaOf(dx) = ZeroMeta
          /\ DX_GetFrameBuffer(dx) = NULL

\* The releases a Shutdown step of the duplication backend makes, in the
\* order it makes them, and the releases of the handles it held in the
\* pre-state, taken in the given order.
IsRelease(c) ==
    c \in {"Release(stagingTexture)", "Release(outputDuplication)",
           "Release(device)", "Release(deviceContext)"}
C17_Held(c) ==
    \/ c = "Release(stagingTexture)" /\ dx.m_stagingTexture # NULL
    \/ c = "Release(outputDuplication)" /\ dx.m_outputDuplication # NULL
    \/ c = "Release(device)" /\ dx.m_device # NULL
    \/ c = "Release(deviceContext)" /\ dx.m_deviceContext # NULL
C17_ShutdownStep(order) ==
    (DXInUse /\ op'.name = "Shutdown") =>
        /\ SelectSeq(calls', IsRelease) = SelectSeq(order, C17_Held)
        /\ dx'.m_frameBuffer = <<>>

\* C17 (as claimed): ScreenCaptureDX11::Shutdown releases the handles it holds
\* in the order staging texture, duplication session, device context, device,
\* and clears the pixel buffer.
C17_ContextBeforeDevice ==
    [][C17_ShutdownStep(<<"Release(stagingTexture)",
                          "Release(outputDuplication)",
                          "Release(deviceContext)",
                          "Release(device)">>)]_vars

\* C17 (amended): ScreenCaptureDX11::Shutdown releases the handles it holds in
\* the order staging texture, duplication session, device, device context,
\* and clears the pixel buffer.
C17_DeviceBeforeContext ==
    [][C17_ShutdownStep(<<"Release(stagingTexture)",
                          "Release(outputDuplication)",
                          "Release(device)",
                          "Release(deviceContext)">>)]_vars

\* C17 witness: Shutdown of a backend that held a duplication session, a
\* device and a device context and had a frame in its buffer.
C17_Witness ==
    /\ user = "dx11" /\ op.name = "Shutdown"
    /\ calls = <<"Release(outputDuplication)", "Release(device)",
                 "Release(deviceContext)">>
    /\ dx.m_frameBufferStorage /\ dx.m_frameBuffer = <<>>
    /\ dxgi.dups = 0 /\ dxgi.devices = 0 /\ dxgi.contexts = 0

\* C18: the duplication backend retains no staging texture between calls: at
\* every return from Startup, CaptureFrame (success or failure) and Shutdown
\* the staging-texture handle is null and no staging texture is alive; one is
\* created and released only inside a CaptureFrame call.
C18_NoStagingTextureRetained ==
    DXInUse =>
        /\ dx.m_stagingTexture = NULL
        /\ dxgi.textures = 0
        /\ Has(calls, "Release(stagingTexture)") =>
              (op.name = "CaptureFrame" /\ Has(calls, "CreateTexture2D"))

\* C18 witness: a CaptureFrame that created the staging texture, failed to map
\* it, released it and returned false.
C18_Witness ==
    /\ DXInUse /\ op.name = "CaptureFrame" /\ ~ret
    /\ Has(calls, "CreateTexture2D") /\ Has(calls, "Map")
    /\ Has(calls, "Release(stagingTexture)")
    /\ dx.m_stagingTexture = NULL

\* What a facade Startup step constructed, deleted and started.
IsNew(c) == c \in {"new(GDI)", "new(DX11)"}
IsDelete(c) == c \in {"delete(GDI)", "delete(DX11)"}
C19_Deleted ==
    (IF m_capgdi # NULL THEN <<"delete(GDI)">> ELSE <<>>)
        \o (IF m_capdx11 # NULL THEN <<"delete(DX11)">> ELSE <<>>)

\* C19: ScreenCapture::Startup(mode) for mode GDI or DX11 first shuts down the
\* active session, if any, then constructs exactly one backend, of the kind
\* asked for, calls its Startup exactly once and returns what that call
\* returned; for any other mode it constructs no backend and returns false.
C19_Step ==
    (user = "facade" /\ op'.name = "Startup") =>
        /\ SelectSeq(calls', IsDelete) = C19_Deleted
        /\ \A i, j \in DOMAIN calls' :
              (IsDelete(calls'[i]) /\ IsNew(calls'[j])) => i < j
        /\ op'.mode = ScreenCaptureMode_GDI =>
              /\ SelectSeq(calls', IsNew) = <<"new(GDI)">>
              /\ m_capgdi' # NULL /\ m_capdx11' = NULL
              /\ Count(calls', "CreateCompatibleDC") = 1
              /\ ~Has(calls', "D3D11CreateDevice(HARDWARE)")
              /\ ret' <=> (gdi'.m_hdcMem # NULL)
        /\ op'.mode = ScreenCaptureMode_DX11 =>
              /\ SelectSeq(calls', IsNew) = <<"new(DX11)">>
              /\ m_capdx11' # NULL /\ m_capgdi' = NULL
              /\ Count(calls', "D3D11CreateDevice(HARDWARE)") = 1
              /\ ~Has(calls', "CreateCompatibleDC")
              /\ ret' <=> (dx'.m_outputDuplication # NULL)
        /\ op'.mode \notin {ScreenCaptureMode_GDI, ScreenCaptureMode_DX11} =>
              /\ SelectSeq(calls', IsNew) = <<>>
              /\ m_capgdi' = NULL /\ m_capdx11' = NULL
              /\ ~ret'
C19_StartupConstructsRequestedBackend == [][C19_Step]_vars

\* C19 witness: Startup(GDI) on a session that had the duplication backend
\* active deleted it, constructed the blit backend and returned false, as the
\* blit backend's Startup had.
C19_Witness ==
    /\ user = "facade"
    /\ op.name = "Startup" /\ op.mode = ScreenCaptureMode_GDI
    /\ Has(calls, "delete(DX11)") /\ Has(calls, "Release(device)")
    /\ Has(calls, "new(GDI)") /\ Has(calls, "DeleteDC")
    /\ ~ret /\ gdi.m_hdcMem = NULL

\* C19 witness for the other modes.
C19_WitnessOther ==
    /\ user = "facade"
    /\ op.name = "Startup" /\ op.mode = Mode_Other
    /\ Has(calls, "delete(GDI)")
    /\ ~ret /\ m_capgdi = NULL

\* A ScreenCaptureGDI::CaptureFrame step: it returns true exactly when the
\* backend is started, and when it returns false it made no display copy and
\* changed nothing.
C20_CaptureStep(isStarted) ==
    (GDIInUse /\ op'.name = "CaptureFrame") =>
        /\ ret' <=> isStarted
        /\ ~ret' =>
              /\ ~Has(calls', "BitBlt")
              /\ UNCHANGED <<m_mode, m_capgdi, m_capdx11, leaked,
                             gdi, dx, gdios, dxgi>>

\* C20 (as claimed): started means that a Startup returned true and no
\* Shutdown has run since.
C20_TrueWhenStartedSince == [][C20_CaptureStep(hist.since)]_vars

\* C20 (amended): started means that the most recent Startup returned true
\* and no Shutdown has run since.
C20_TrueWhenLastStartupSucceeded == [][C20_CaptureStep(hist.started)]_vars

\* C20 witness: a CaptureFrame after a Startup that returned false on a backend
\* that an earlier Startup had started: it returned false and copied nothing,
\* the width being non-zero.
C20_Witness ==
    /\ GDIInUse /\ op.name = "CaptureFrame" /\ ~ret
    /\ hist.since /\ ~hist.started
    /\ GDI_GetFrameWidth(gdi) > 0
    /\ calls = <<>>

\* C21: after ScreenCaptureGDI::Shutdown returns, from any state, the
\* off-screen surface and the memory display context the backend held have
\* been released, their handles are null, and Width, Height, BitDepth and
\* Stride are all 0.
C21_Step ==
    (GDIInUse /\ op'.name = "Shutdown") =>
        /\ gdi.m_hdcMem # NULL => Count(calls', "DeleteDC") = 1
        /\ gdi.m_dibSection # NULL => Count(calls', "DeleteObject") = 1
        /\ gdi'.m_hdcMem = NULL
        /\ gdi'.m_dibSection = NULL
        /\ GDIMetaOf(gdi') = ZeroMeta
C21_BlitShutdownReleases == [][C21_Step]_vars

\* C21 witness: Shutdown of a started blit backend: it deleted the display
\* context and the surface, and none is left alive.
C21_Witness ==
    /\ user = "gdi" /\ op.name = "Shutdown"
    /\ calls = <<"SelectObject", "DeleteDC", "DeleteObject">>
    /\ gdi.m_hdcMem = NULL /\ gdi.m_dibSection = NULL
    /\ GDIMetaOf(gdi) = ZeroMeta
    /\ gdios.memDCs = 0 /\ gdios.dibs = 0

\* A Startup of the duplication backend has just returned.
DXStartupReturned ==
    /\ op.name = "Startup"
    /\ user = "dx11" \/ (user = "facade" /\ op.mode = ScreenCaptureMode_DX11)

\* C22: ScreenCaptureDX11::Startup returns true if and only if device
\* creation succeeds for some driver type and every step of the negotiation
\* (device interface, adapter, first output, output-duplication interface,
\* DuplicateOutput with a non-null session) succeeds.
C22_StartupTrueIffAllSteps ==
    DXStartupReturned => (ret <=> (op.rest /\ op.full = 0))

\* C22 witness: the device was created and DuplicateOutput succeeded but
\* handed back no session, the only step that failed; Startup returned false.
C22_Witness ==
    /\ DXStartupReturned /\ ~ret
    /\ op.rest /\ op.full = NegotiationSteps
    /\ Has(calls, "DuplicateOutput")
    /\ dx.m_device # NULL /\ dx.m_outputDuplication = NULL

\* C23: after ScreenCaptureDX11::Startup has returned false, at whichever
\* step it failed, every CaptureFrame call returns false without calling the
\* driver, until a later Startup returns true.
C23_Step ==
    (DXInUse /\ ~hist.started /\ op.name \in {"Startup", "CaptureFrame"}
     /\ op'.name = "CaptureFrame") =>
        /\ ~ret'
        /\ calls' = <<>>
C23_FailedStartupNotReady == [][C23_Step]_vars

\* The six 32-bit BGRA/BGRX formats.
C24_Supported ==
    {DXGI_FORMAT_B8G8R8A8_UNORM, DXGI_FORMAT_B8G8R8X8_UNORM,
     DXGI_FORMAT_B8G8R8A8_TYPELESS, DXGI_FORMAT_B8G8R8A8_UNORM_SRGB,
     DXGI_FORMAT_B8G8R8X8_TYPELESS, DXGI_FORMAT_B8G8R8X8_UNORM_SRGB}

\* A CaptureFrame step of the duplication backend that acquired a surface
\* (it went on to GetDesc) of a format outside the six.
C24_UnsupportedStep ==
    /\ DXInUse
    /\ op'.name = "CaptureFrame"
    /\ Has(calls', "GetDesc")
    /\ dxgi.format \notin C24_Supported

\* C24: if the acquired surface's pixel format is not one of the six supported
\* 32-bit BGRA/BGRX variants, ScreenCaptureDX11::CaptureFrame returns false,
\* creates no staging surface and leaves the owned pixel buffer's bytes
\* unchanged.
C24_Step ==
    C24_UnsupportedStep =>
        /\ ~ret'
        /\ ~Has(calls', "CreateTexture2D")
        /\ dxgi'.textures = dxgi.textures
        /\ dx'.m_stagingTexture = NULL
        /\ ~Has(calls', "Map")
        /\ dx'.m_frameBuffer = dx.m_frameBuffer
C24_UnsupportedFormatRefused == [][C24_Step]_vars

\* C24 witness: a surface of an unsupported format was acquired and refused
\* right after GetDesc.
C24_Witness ==
    /\ DXInUse
    /\ op.name = "CaptureFrame"
    /\ dxgi.format = DXGI_FORMAT_R10G10B10A2_UNORM
    /\ calls = <<"AcquireNextFrame", "QueryInterface(ID3D11Texture2D)",
                 "GetDesc">>
    /\ ~ret
    /\ dxgi.textures = 0
    /\ dx.m_stagingTexture = NULL

\* The calls made after the last driver acquire of the log.
RECURSIVE SinceLastAcquire(_)
SinceLastAcquire(log) ==
    IF log = <<>> \/ log[Len(log)] = "AcquireNextFrame" THEN <<>>
    ELSE Append(SinceLastAcquire(SubSeq(log, 1, Len(log) - 1)), log[Len(log)])

\* CreateTexture2D was called and the texture never used: creation failed.
C25_StagingFailed(log) == Has(log, "CreateTexture2D") /\ ~Has(log, "CopyResource")
\* Map was called and Unmap was not: the map failed.
C25_MapFailed(log) == Has(log, "Map") /\ ~Has(log, "Unmap")

\* C25: when staging-surface creation fails or mapping the staging surface for
\* CPU read fails, ScreenCaptureDX11::CaptureFrame returns false and the
\* acquired frame has been released on the duplication session exactly once
\* before the return.
C25_Step ==
    (DXInUse /\ op'.name = "CaptureFrame"
     /\ (C25_StagingFailed(calls') \/ C25_MapFailed(calls'))) =>
        /\ ~ret'
        /\ Count(SinceLastAcquire(calls'), "ReleaseFrame") = 1
        /\ calls'[Len(calls')] = "ReleaseFrame"
        /\ ~dxgi'.frameHeld
C25_ResourceFailureReleasesFrame == [][C25_Step]_vars

\* C25 witness: the map of the staging texture failed on the frame acquired at
\* the second attempt; the texture and then the frame were released.
C25_Witness ==
    /\ DXInUse
    /\ op.name = "CaptureFrame" /\ op.full = 2
    /\ ~ret
    /\ SinceLastAcquire(calls) =
           <<"QueryInterface(ID3D11Texture2D)", "GetDesc", "CreateTexture2D",
             "CopyResource", "Map", "Release(stagingTexture)", "ReleaseFrame">>
    /\ Count(calls, "ReleaseFrame") = 2
    /\ ~dxgi.frameHeld

\* The other case of C25: CreateTexture2D failed and the frame was released.
C25_WitnessStaging ==
    /\ DXInUse
    /\ op.name = "CaptureFrame"
    /\ ~ret
    /\ SinceLastAcquire(calls) =
           <<"QueryInterface(ID3D11Texture2D)", "GetDesc", "CreateTexture2D",
             "ReleaseFrame">>
    /\ ~dxgi.frameHeld

\* C26: over the lifetime of a VideoFileEncoder, MFStartup is called (at
\* construction) and MFShutdown is called (at destruction) exactly when
\* doMFStartup is true, and CoInitialize/CoUninitialize exactly when
\* doCoInitialize is true; with a flag false the encoder makes neither call of
\* that pair, so that every lifetime leaves both balanced.
C26_PlatformInitFollowsFlags ==
    /\ (user = "encoder" /\ op.name = "VideoFileEncoder") =>
          /\ Has(calls, "MFStartup") <=> enc.self.m_doMFStartup
          /\ Has(calls, "CoInitializeEx") <=> enc.self.m_doCoInitialize
    /\ (user = "encoder" /\ op.name = "~VideoFileEncoder") =>
          /\ Has(calls, "MFShutdown") <=> enc.self.m_doMFStartup
          /\ Has(calls, "CoUninitialize") <=> enc.self.m_doCoInitialize
          /\ enc.os.mf = 0 /\ enc.os.co = 0

\* The scanline order of a buffer of two scanlines or more.
IsTopDown(rows) == \A r \in DOMAIN rows : rows[r][2] = r
IsBottomUp(rows) == \A r \in DOMAIN rows : rows[r][2] = Len(rows) + 1 - r

\* A pass of capenctest's loop that handed a frame to AddFrame and went on.
C27_FrameHanded ==
    /\ user = "capenctest"
    /\ main.pc = "loop" /\ main'.pc = "loop"
    /\ Has(calls', "AddFrame")

\* C27: every frame capenctest hands to the encoder is flagged consistently
\* with its scanline order: AddFrame's flipY argument is true exactly when
\* the buffer the capture session returned is bottom-to-top, so a
\* top-to-bottom buffer is passed with flipY false.
C27_Step ==
    (C27_FrameHanded /\ Len(CapPixels(World)'.rows) >= 2) =>
        (enc'.arg.flipY <=> IsBottomUp(CapPixels(World)'.rows))
C27_FlipYMatchesScanlineOrder == [][C27_Step]_vars

\* A pass of capenctest's loop that called AddFrame.
C28_AddFrameStep ==
    /\ user = "capenctest"
    /\ main.pc = "loop"
    /\ Has(calls', "AddFrame")

\* C28: the timestamps capenctest passes to successive AddFrame calls are
\* strictly increasing: the first is 0 and each later one exceeds the previous
\* by the encoder's frame duration (10,000,000 / fps units); capture attempts
\* that return no frame do not advance or repeat a timestamp.
C28_Step ==
    /\ (C28_AddFrameStep /\ main.numFrames = 0) =>
          enc'.arg.timestamp = 0
    /\ (C28_AddFrameStep /\ main.numFrames > 0) =>
          /\ enc'.arg.timestamp > enc.arg.timestamp
          /\ enc'.arg.timestamp =
                 enc.arg.timestamp + (10000000 \div framesPerSecond)
          /\ enc'.arg.timestamp =
                 enc.arg.timestamp + VFE_GetFrameDuration(enc.self)
    /\ (user = "capenctest" /\ main.pc = "loop" /\ main'.pc = "loop"
        /\ ~Has(calls', "AddFrame")) =>
          /\ main'.timestamp = main.timestamp
          /\ main'.numFrames = main.numFrames
          /\ enc'.arg = enc.arg
C28_TimestampsAdvanceByFrameDuration == [][C28_Step]_vars

\* C28 witness: two frames were added, the second one frame duration after
\* the first, and one capture attempt gave no frame.
C28_Witness ==
    /\ user = "capenctest"
    /\ main.pc = "loop"
    /\ main.numFrames = 2
    /\ main.iframe = 3
    /\ enc.arg.timestamp = 333333
    /\ main.timestamp = 2 * 333333

\* The driver acquires a CaptureFrame call made.
Acquires(log) == Count(log, "AcquireNextFrame")

\* A CaptureFrame step of the duplication backend in which the driver failed
\* an acquire the call made.
C29_AcquireFailed ==
    /\ DXInUse
    /\ op'.name = "CaptureFrame"
    /\ op'.fail # 0
    /\ Acquires(calls') >= op'.fail

\* C29: within one CaptureFrame call on the duplication backend, if a driver
\* acquire attempt fails (timeout or any driver error), no further acquire
\* attempt is made in that call, no ReleaseFrame is issued for it, and
\* CaptureFrame returns false.
C29_Step ==
    C29_AcquireFailed =>
        /\ Acquires(calls') = op'.fail
        /\ calls'[Len(calls')] = "AcquireNextFrame"
        /\ Count(calls', "ReleaseFrame") = op'.fail - 1
        /\ dxgi'.frameHeld = dxgi.frameHeld
        /\ ~ret'
C29_FailedAcquireEndsCall == [][C29_Step]_vars

\* C29 witness: the driver failed the third acquire, after two frames that
\* were not ready; the call made no fourth.
C29_Witness ==
    /\ DXInUse
    /\ op.name = "CaptureFrame" /\ op.fail = 3
    /\ ~ret
    /\ calls = <<"AcquireNextFrame", "ReleaseFrame", "Sleep",
                 "AcquireNextFrame", "ReleaseFrame", "Sleep",
                 "AcquireNextFrame">>
    /\ ~dxgi.frameHeld

\* Between any two driver acquires of the log the frame was released.
ReleasedBetweenAcquires(log) ==
    \A i, j \in DOMAIN log :
        (i < j /\ log[i] = "AcquireNextFrame" /\ log[j] = "AcquireNextFrame")
            => \E k \in (i + 1)..(j - 1) : log[k] = "ReleaseFrame"

\* C30: in the duplication backend's retry loop, whenever an acquire attempt
\* succeeds but the present marker is zero or no backing surface was returned,
\* the frame is released on the duplication session before the next acquire
\* attempt is made; the driver is never asked for a new frame while a
\* previously acquired frame is still held, and if all 4 attempts end this way
\* CaptureFrame returns false.
C30_Step ==
    (DXInUse /\ op'.name = "CaptureFrame") =>
        /\ ReleasedBetweenAcquires(calls')
        /\ dxgi.frameHeld => Acquires(calls') = 0
        /\ (Acquires(calls') > 0 /\ ~dxgi.frameHeld
            /\ (op'.full > 4 \/ op'.fail > 4)) =>
              /\ ~ret'
              /\ Acquires(calls') = 4
              /\ Count(calls', "ReleaseFrame") = 4
              /\ ~dxgi'.frameHeld
C30_NoAcquireWhileFrameHeld == [][C30_Step]_vars

\* The D3D11CreateDevice calls of a log, in the order they were made.
DeviceCalls(log) == SelectSeq(log, LAMBDA c : Has(DriverCalls, c))

\* C31: device negotiation tries the driver types in the order hardware,
\* WARP, reference, each at most once; it stops at the first type that yields
\* a device and a device context and tries no later type; when all three
\* fail Startup returns false with the device and the device context null.
C31_DriverTypesInOrder ==
    DXStartupReturned =>
        /\ DeviceCalls(calls) =
              SubSeq(DriverCalls, 1,
                     IF op.dev = 0 THEN Len(DriverCalls) ELSE op.dev)
        /\ op.dev # 0 => dx.m_device # NULL /\ dx.m_deviceContext # NULL
        /\ op.dev = 0 =>
              ~ret /\ dx.m_device = NULL /\ dx.m_deviceContext = NULL

\* C31 witness: the hardware type failed and WARP gave a device; the
\* reference type was not tried.
C31_Witness ==
    /\ DXStartupReturned /\ op.dev = 2
    /\ DeviceCalls(calls) = <<DriverCalls[1], DriverCalls[2]>>
    /\ dx.m_device # NULL /\ dx.m_deviceContext # NULL

\* All three driver types were tried and failed.
C31_WitnessNone ==
    /\ DXStartupReturned /\ op.dev = 0 /\ ~ret
    /\ DeviceCalls(calls) = DriverCalls
    /\ dx.m_device = NULL /\ dx.m_deviceContext = NULL

\* C32: after a ScreenCaptureDX11::CaptureFrame call that returned true,
\* Width and Height are the staging surface's dimensions, Stride is the
\* mapped row pitch, BitDepth is 32 and the pixel buffer holds exactly
\* Stride*Height bytes.
C32_MetadataFromMappedSurface ==
    (DXInUse /\ op.name = "CaptureFrame" /\ ret) =>
        /\ DX_GetFrameWidth(dx) = dxgi.width
        /\ DX_GetFrameHeight(dx) = dxgi.height
        /\ DX_GetFrameStride(dx) = hist.frame.stride
        /\ DX_GetFrameDepth(dx) = 32
        /\ Len(dx.m_frameBuffer) =
              DX_GetFrameStride(dx) * DX_GetFrameHeight(dx)

\* C32 witness: a full-size frame whose mapped rows are padded was captured.
C32_Witness ==
    /\ DXInUse /\ op.name = "CaptureFrame" /\ ret
    /\ dxgi.width = MaxW /\ dxgi.height = MaxH
    /\ DX_GetFrameStride(dx) = MaxW * 4 + 4
    /\ Len(dx.m_frameBuffer) = (MaxW * 4 + 4) * MaxH

\* C33: on a ScreenCapture the reported mode and the installed backend agree:
\* the mode is GDI exactly when the blit backend is installed, DX11 exactly
\* when the duplication backend is installed, and when it is Invalid no
\* backend is installed.
C33_ModeMatchesBackend ==
    user = "facade" =>
        /\ (SC_GetCaptureMode(World) = ScreenCaptureMode_GDI)
              <=> (m_capgdi # NULL)
        /\ (SC_GetCaptureMode(World) = ScreenCaptureMode_DX11)
              <=> (m_capdx11 # NULL)
        /\ (SC_GetCaptureMode(World) = ScreenCaptureMode_Invalid)
              => (m_capgdi = NULL /\ m_capdx11 = NULL)

\* C33 witness: Startup(GDI) ran on a session whose mode was DX11 and
\* failed; the mode is GDI and the blit backend is the one installed.
C33_Witness ==
    /\ user = "facade"
    /\ op.name = "Startup" /\ op.mode = ScreenCaptureMode_GDI /\ ~ret
    /\ Has(calls, "delete(DX11)")
    /\ SC_GetCaptureMode(World) = ScreenCaptureMode_GDI
    /\ m_capgdi # NULL /\ m_capdx11 = NULL

\* The first native call only ScreenCaptureGDI::Startup makes, and the first
\* one of ScreenCaptureDX11::Startup: one per call of the method.
GDIStartupMark == "CreateCompatibleDC"
DXStartupMark == DriverCalls[1]

\* Every Startup of a backend in the log is the first thing done with an
\* instance constructed just before it, and every instance constructed is
\* started.
StartedOncePerInstance(log) ==
    /\ \A i \in DOMAIN log :
          /\ log[i] = GDIStartupMark =>
                i > 2 /\ log[i - 1] = "GetDC" /\ log[i - 2] = "new(GDI)"
          /\ log[i] = DXStartupMark => i > 1 /\ log[i - 1] = "new(DX11)"
    /\ Count(log, GDIStartupMark) = Count(log, "new(GDI)")
    /\ Count(log, DXStartupMark) = Count(log, "new(DX11)")

\* C34: through the facade every backend instance has its Startup called
\* exactly once, right after its construction: no call of the facade starts
\* a backend that was started before, and CaptureFrame and Shutdown start
\* none.
C34_BackendStartedOnce ==
    user = "facade" =>
        /\ StartedOncePerInstance(calls)
        /\ op.name # "Startup" =>
              ~Has(calls, GDIStartupMark) /\ ~Has(calls, DXStartupMark)
        /\ Count(calls, "new(GDI)") + Count(calls, "new(DX11)") <= 1

\* C34 witness: Startup(DX11) on a session whose duplication backend was
\* started: that instance was deleted and a new one started, once.
C34_Witness ==
    /\ user = "facade"
    /\ op.name = "Startup" /\ op.mode = ScreenCaptureMode_DX11 /\ ret
    /\ Has(calls, "delete(DX11)") /\ Has(calls, "Release(device)")
    /\ Count(calls, "new(DX11)") = 1
    /\ Count(calls, DXStartupMark) = 1

\* The frames outstanding (0 or 1) after the driver calls log[i..] of one
\* CaptureFrame, when out are outstanding before them and k acquires were
\* made; -1 when a ReleaseFrame among them finds no frame outstanding.  The
\* acquire number n succeeds when the driver fails none (fail = 0) or a later
\* one.
RECURSIVE FramesOutstanding(_, _, _, _, _)
FramesOutstanding(log, i, k, out, fail) ==
    IF i > Len(log) THEN out
    ELSE IF log[i] = "AcquireNextFrame"
    THEN FramesOutstanding(log, i + 1, k + 1,
             IF fail = 0 \/ k + 1 < fail THEN 1 ELSE out, fail)
    ELSE IF log[i] = "ReleaseFrame"
    THEN IF out = 1 THEN FramesOutstanding(log, i + 1, k, 0, fail) ELSE -1
    ELSE FramesOutstanding(log, i + 1, k, out, fail)

\* C35: the duplication backend calls ReleaseFrame only while a frame that a
\* successful acquire gave is outstanding: every ReleaseFrame follows a
\* successful acquire that no ReleaseFrame has matched yet, so that each
\* successful acquire is followed by at most one; Startup and Shutdown make
\* no ReleaseFrame.
C35_Step ==
    /\ op'.name # "CaptureFrame" => ~Has(calls', "ReleaseFrame")
    /\ op'.name = "CaptureFrame" =>
          FramesOutstanding(calls', 1, 0, IF dxgi.frameHeld THEN 1 ELSE 0,
                            op'.fail)
              = (IF dxgi'.frameHeld THEN 1 ELSE 0)
C35_ReleaseOnlyOutstandingFrame == [][C35_Step]_vars

\* C35 witness: in one CaptureFrame two frames that were not ready and the
\* complete frame were acquired, and each was released once.
C35_Witness ==
    /\ DXInUse /\ op.name = "CaptureFrame" /\ ret
    /\ op.full = 3
    /\ Count(calls, "AcquireNextFrame") = 3
    /\ Count(calls, "ReleaseFrame") = 3
    /\ ~dxgi.frameHeld

\* The memory display contexts and off-screen surfaces alive are those the
\* instance holds handles of.
GDIAccounted(self, os) ==
    /\ os.memDCs = (IF self.m_hdcMem # NULL THEN 1 ELSE 0)
    /\ os.dibs = (IF self.m_dibSection # NULL THEN 1 ELSE 0)

\* Every screen display context a log obtains is released later in it,
\* before the next one is obtained.
ScreenDCReleased(log) ==
    /\ Count(log, "GetDC") = Count(log, "ReleaseDC")
    /\ \A i \in DOMAIN log :
          log[i] = "GetDC" =>
              \E j \in (i + 1)..Len(log) :
                  /\ log[j] = "ReleaseDC"
                  /\ \A k \in (i + 1)..(j - 1) :
                        log[k] \notin {"GetDC", "ReleaseDC"}

\* C36: in the blit backend, as long as Startup is not called on a started
\* backend, every screen display context an operation obtains is released
\* before it returns, the memory display context and the off-screen surface
\* alive are the ones the instance holds, and Shutdown deletes each one that
\* is alive exactly once and leaves none.
C36_Step ==
    (/\ GDIAccounted(gdi, gdios)
     /\ ~(user = "gdi" /\ op'.name = "Startup" /\ hist.started)) =>
        /\ GDIAccounted(gdi', gdios')
        /\ ScreenDCReleased(calls')
        /\ op'.name = "Shutdown" =>
              /\ Count(calls', "DeleteDC") = gdios.memDCs
              /\ Count(calls', "DeleteObject") = gdios.dibs
              /\ gdios'.memDCs = 0 /\ gdios'.dibs = 0
C36_BlitResourcesReleasedOnce == [][C36_Step]_vars

\* C36 witness: a Startup of the blit backend failed at CreateDIBSection; the
\* memory display context it had created was deleted and the screen display
\* context released.
C36_Witness ==
    /\ GDIInUse /\ op.name = "Startup" /\ ~ret
    /\ Has(calls, "CreateDIBSection")
    /\ Count(calls, "DeleteDC") = 1
    /\ Count(calls, "GetDC") = 1 /\ Count(calls, "ReleaseDC") = 1
    /\ gdios.memDCs = 0 /\ gdi.m_hdcMem = NULL

\* C37: VideoFileEncoder::AddFrame uses the sink writer only while an
\* encoding session is active: when none is (before any Start, after a Start
\* that failed, after Stop) it returns false without calling WriteSample,
\* and WriteSample is never called through a null sink writer.
C37_AddFrameNeedsSession ==
    /\ ~enc.fault
    /\ (op.name = "AddFrame" /\ enc.self.m_pSinkWriter = NULL) =>
          ~ret /\ ~Has(calls, "WriteSample")

\* C38: for every width, height, stride and bitsPerPixel that BmpWrite's
\* argument check accepts, every scanline it writes is read from within the
\* caller's buffer of stride*height bytes: no read starts before the buffer
\* or ends behind offset stride*height.
C38_ReadsWithinBuffer ==
    (op.name = "BmpWrite" /\ bmp.accepted) =>
        \A i \in DOMAIN bmp.reads :
            /\ bmp.reads[i].off >= 0
            /\ bmp.reads[i].off + bmp.reads[i].len
                  <= bmp.arg.stride * bmp.arg.height

====
